---- MODULE Spec2Model ----
(***************************************************************************)
(* Flash mode of the jump-navigation plugin: the incremental search        *)
(* controller (FlashController), the viewport-aware match detector         *)
(* (FlashMatchDetector) and the label generator (generateHintLabels).      *)
(*                                                                         *)
(* Text is modelled as sequences of one-character strings; a label is a    *)
(* sequence of one or two characters.  Offsets are 0-based as in the code. *)
(***************************************************************************)
EXTENDS Integers, Sequences, FiniteSets, TLC

(***************************************************************************)
(* Bounds of the model.                                                    *)
(***************************************************************************)
\* Length of the short documents; the long ones have one character more.
DocLen == 3
\* Longest search string the model lets the user type.
MaxSearchLen == 2
\* Largest label count asked of the generator when it is checked alone.
MaxCount == 6
\* Longest alphabet string given to the generator when it is checked alone.
MaxAlphabetLen == 3

(***************************************************************************)
(* Characters and keys.                                                    *)
(***************************************************************************)
\* Characters a document is made of: two letters and one non-word character.
DocChars == {"x", "a", "-"}
\* Characters of label alphabets.
LabelChars == {"a", "b", "c", "x"}
\* The Cyrillic key on the physical position of Latin "a" (U+0444).
CyrF == "U+0444"
\* Keys of length 1 (KeyboardEvent.key); "A" is "a" typed with Shift.
PrintableKeys == {"x", "a", "b", "A", CyrF}
\* Keys the controller handles before the modifier check.
SpecialKeys == {"Escape", "Backspace", "Tab"}
\* Named keys that are neither printable nor in MODIFIER_KEYS.
OtherNamedKeys == {"ArrowLeft"}

\* String.prototype.toUpperCase on one character.
ToUpperCase(c) ==
    CASE c = "a" -> "A"
      [] c = "b" -> "B"
      [] c = "c" -> "C"
      [] c = "n" -> "N"
      [] c = "x" -> "X"
      [] OTHER   -> c

\* String.prototype.toLowerCase on one character.
ToLowerCase(c) ==
    IF c = "A" THEN "a" ELSE IF c = "N" THEN "n" ELSE c

\* /\S/.test(char)
IsNonWhitespace(c) == c \notin {" ", "\t", "\n"}

\* /[\p{L}\p{N}_]/u.test(char)
IsWordChar(c) == c \in {"x", "a", "b", "c", "A", "_", CyrF}

Min(a, b) == IF a < b THEN a ELSE b
Max(a, b) == IF a > b THEN a ELSE b

Range(s) == {s[i] : i \in 1..Len(s)}

(***************************************************************************)
(* KeyboardMapper                                                          *)
(***************************************************************************)
MODIFIER_KEYS ==
    {"Shift", "Meta", "Escape", "Control", "Alt", "CapsLock", "Tab", "Backspace", "Enter"}

isModifierKey(key) == key \in MODIFIER_KEYS

isCyrillic(key) == key = CyrF

convertToLatin(key) == IF key = CyrF THEN "a" ELSE key

normalizeKeypress(key) == IF isCyrillic(key) THEN convertToLatin(key) ELSE key

\* FlashController.isPrintable: key.length === 1
isPrintable(key) == key \in PrintableKeys

(***************************************************************************)
(* Label generator (hints/HintGenerator.generateHintLabels).               *)
(*                                                                         *)
(* Its source file is not among the sources; it is modelled from the       *)
(* specification, sections 3 and 4.1:                                      *)
(*  - the alphabet is deduplicated, first occurrence kept;                 *)
(*  - usable = alphabet - excluded;                                        *)
(*  - single-character labels consume usable in order, up to               *)
(*    min(count, |usable|) of them;                                        *)
(*  - the letters of usable left over become prefixes, each paired with    *)
(*    every non-excluded alphabet letter, prefix outer, suffix inner;      *)
(*  - a letter is a single-character label or a prefix, never both;        *)
(*  - at most count labels are returned, fewer when the alphabet cannot    *)
(*    cover the demand.                                                    *)
(* The specification does not say how many letters are held back as        *)
(* prefixes.  The model holds back the fewest that let the labels cover    *)
(* the demand (all of them when nothing can cover it and pairs give more   *)
(* labels than single letters do).                                         *)
(***************************************************************************)
RECURSIVE Dedupe(_)
Dedupe(s) ==
    IF s = <<>> THEN <<>>
    ELSE LET init == Dedupe(SubSeq(s, 1, Len(s) - 1))
             last == s[Len(s)]
         IN IF last \in Range(init) THEN init ELSE Append(init, last)

\* Labels of one prefix: prefix + suffix for every suffix, in order.
PairsOfPrefix(prefix, suffixes) ==
    [j \in 1..Len(suffixes) |-> <<prefix, suffixes[j]>>]

RECURSIVE PairLabels(_, _)
PairLabels(prefixes, suffixes) ==
    IF prefixes = <<>> THEN <<>>
    ELSE PairsOfPrefix(Head(prefixes), suffixes) \o PairLabels(Tail(prefixes), suffixes)

\* Number of labels available when k letters of u usable ones are single-
\* character labels and the other u - k are prefixes.
LabelCapacity(u, k) == k + (u - k) * u

\* Variant: every usable letter is held back as a prefix.
SingleCountNone(u, count) == 0

\* Number of single-character labels for a demand of count labels.
SingleCount(u, count) ==
    LET best   == Max(LabelCapacity(u, 0), LabelCapacity(u, u))
        target == Min(count, best)
    IN CHOOSE k \in 0..u :
          /\ LabelCapacity(u, k) >= target
          /\ \A k2 \in 0..u : LabelCapacity(u, k2) >= target => k2 <= k

\* Variant: the second character of a pair is any alphabet letter.
generateHintLabelsAnySuffix(alphabet, count, excluded) ==
    LET letters  == Dedupe(alphabet)
        usable   == SelectSeq(letters, LAMBDA c : c \notin excluded)
        u        == Len(usable)
        k        == SingleCount(u, count)
        singles  == [i \in 1..k |-> <<usable[i]>>]
        prefixes == SubSeq(usable, k + 1, u)
        all      == singles \o PairLabels(prefixes, letters)
    IN SubSeq(all, 1, Min(count, Len(all)))

\* Variant: every usable letter is a single-character label and a prefix.
generateHintLabelsReusedPrefixes(alphabet, count, excluded) ==
    LET letters  == Dedupe(alphabet)
        usable   == SelectSeq(letters, LAMBDA c : c \notin excluded)
        singles  == [i \in 1..Len(usable) |-> <<usable[i]>>]
        all      == singles \o PairLabels(usable, usable)
    IN SubSeq(all, 1, Min(count, Len(all)))

generateHintLabels(alphabet, count, excluded) ==
    LET letters  == Dedupe(alphabet)
        usable   == SelectSeq(letters, LAMBDA c : c \notin excluded)
        u        == Len(usable)
        k        == SingleCount(u, count)
        singles  == [i \in 1..k |-> <<usable[i]>>]
        prefixes == SubSeq(usable, k + 1, u)
        all      == singles \o PairLabels(prefixes, usable)
    IN SubSeq(all, 1, Min(count, Len(all)))

(***************************************************************************)
(* State.                                                                  *)
(***************************************************************************)
VARIABLES
    settings,        \* Settings: letters, flashCharacterCount, flashCaseSensitive,
                     \*           flashJumpPosition, flashJumpPositionCapital,
                     \*           flashInputMode
    doc,             \* editor.state.doc, a sequence of characters
    viewport,        \* [from, to): the slice getVisibleLinesCM6 returns
    visibleRanges,   \* editor.visibleRanges, a sequence of [from, to) records
    searchString,    \* FlashController.searchString
    isActive,        \* FlashController.isActive
    isDeactivating,  \* FlashController.isDeactivating
    matches,         \* FlashController.matches
    matchedPrefix,   \* FlashController.matchedPrefix ("" when none)
    prefixShiftHeld, \* FlashController.prefixShiftHeld
    lastShiftKey,    \* FlashController.lastShiftKey
    calls,           \* callbacks invoked by the last operation, in order
    completeCount,   \* onComplete invocations since the last activate()
    lastOp,          \* the last operation and its arguments
    genIn,           \* label generator checked alone: its arguments
    genOut,          \* label generator checked alone: its result
    plugin,          \* FlashPlugin (main.ts) checked alone: its fields and controllers
    mergeIn,         \* mergeMatches checked alone: its two argument lists
    widget,          \* FlashWidgetPlugin: matches and matchedKey
    editor           \* the editor's selection, the pending timers of
                     \* jumpToPosition, and the jumps made (checked alone)

ctlVars == <<searchString, isActive, isDeactivating, matches, matchedPrefix,
             prefixShiftHeld, lastShiftKey>>
hostVars == <<settings, doc, viewport, visibleRanges, editor>>
genVars == <<genIn, genOut, mergeIn>>
vars == <<hostVars, ctlVars, calls, completeCount, lastOp, genVars, plugin, widget>>

(***************************************************************************)
(* utils/common.getVisibleLinesCM6: the slice of the document the host     *)
(* reports as its viewport, with its start offset.                         *)
(***************************************************************************)
getVisibleLinesCM6 ==
    [index |-> viewport.from, content |-> SubSeq(doc, viewport.from + 1, viewport.to)]

(***************************************************************************)
(* FlashMatchDetector                                                      *)
(***************************************************************************)
\* Characters escapeRegex puts a backslash before: . * + ? ^ $ { } ( ) | [ ] \
RegexSpecialChars ==
    {".", "*", "+", "?", "^", "$", "{", "}", "(", ")", "|", "[", "]", "\\"}

\* utils/regexp.escapeRegex: str.replace(/[.*+?^${}()|[\]\\]/g, '\\$&')
RECURSIVE escapeRegex(_)
\* Variant: the search string is used as the pattern, unescaped.
escapeNothing(str) == str

escapeRegex(str) ==
    IF str = <<>> THEN <<>>
    ELSE (IF Head(str) \in RegexSpecialChars THEN <<"\\", Head(str)>> ELSE <<Head(str)>>)
         \o escapeRegex(Tail(str))

\* new RegExp(pattern, flags): the atoms of a pattern without operators; a
\* backslash makes the next character literal, an unescaped dot matches any
\* character but a line break.
RECURSIVE CompilePattern(_)
CompilePattern(pattern) ==
    IF pattern = <<>> THEN <<>>
    ELSE IF Head(pattern) = "\\" /\ Len(pattern) >= 2
    THEN <<[any |-> FALSE, ch |-> pattern[2]]>> \o CompilePattern(SubSeq(pattern, 3, Len(pattern)))
    ELSE IF Head(pattern) = "."
    THEN <<[any |-> TRUE, ch |-> "."]>> \o CompilePattern(Tail(pattern))
    ELSE <<[any |-> FALSE, ch |-> Head(pattern)]>> \o CompilePattern(Tail(pattern))

\* One literal character of the pattern against one character of the text:
\* flag i folds case.
CharMatches(p, c) ==
    IF settings.flashCaseSensitive THEN p = c ELSE ToLowerCase(p) = ToLowerCase(c)

\* One atom of the pattern against one character of the text.
AtomMatches(atom, c) ==
    IF atom.any THEN c # "\n" ELSE CharMatches(atom.ch, c)

\* The compiled pattern matches the text at 0-based position pos.
MatchesAt(pattern, content, pos) ==
    /\ pos + Len(pattern) <= Len(content)
    /\ \A i \in 1..Len(pattern) : AtomMatches(pattern[i], content[pos + i])

\* The regex.exec loop from lastIndex = pos.
RECURSIVE ExecLoop(_, _, _, _)
ExecLoop(pattern, content, index, pos) ==
    IF pos + Len(pattern) > Len(content) THEN <<>>
    ELSE IF MatchesAt(pattern, content, pos)
         THEN <<[index       |-> pos + index,
                 matchLength |-> Len(pattern),
                 linkText    |-> SubSeq(content, pos + 1, pos + Len(pattern)),
                 letter      |-> <<>>]>>
              \o ExecLoop(pattern, content, index,
                          IF Len(pattern) = 0 THEN pos + 1 ELSE pos + Len(pattern))
         ELSE ExecLoop(pattern, content, index, pos + 1)

findLiteralMatches(search, content, index) ==
    ExecLoop(CompilePattern(escapeRegex(search)), content, index, 0)

(***************************************************************************)
(* flash/pyjj: the phonetic (pinyin double-letter) finder.                 *)
(***************************************************************************)
\* Characters of a text, as code points: two Han characters, a Latin letter
\* and a character outside the basic plane (two UTF-16 units).
HanNi == "U+4F60"
HanSi == "U+4F3C"
Emoji == "U+1F600"
PyjjTextChars == {HanNi, HanSi, "n", Emoji}

\* char.length of one code point.
UnitsOf(char) == IF char = Emoji THEN 2 ELSE 1

\* /^[a-zA-Z]+$/ on one character.
IsAsciiLetter(c) == c \in {"a", "b", "c", "h", "i", "n", "s", "x", "A", "N"}

\* /[㐀-䶿一-鿿豈-﫿]/
isHanCharacter(char) == char \in {HanNi, HanSi}

\* The readings pinyin-pro gives (result and polyphonic), normalised: ni for
\* U+4F60; si and shi for U+4F3C.
PinyinReadings(char) ==
    IF char = HanNi THEN {<<"n", "i">>}
    ELSE IF char = HanSi THEN {<<"s", "i">>, <<"s", "h", "i">>}
    ELSE {}

\* pinyinToPyjjCodes on these readings: of its rewriting rules only ^sh -> I
\* applies to them; the form is lower-cased and kept when two letters long.
pinyinToPyjjCodes(base) ==
    LET form == IF Len(base) >= 2 /\ base[1] = "s" /\ base[2] = "h"
                THEN <<"i">> \o SubSeq(base, 3, Len(base))
                ELSE base
    IN IF Len(form) = 2 THEN {form} ELSE {}

\* The cache only memoises; the codes are those of the readings.
getPyjjCodesForChar(char) ==
    IF ~isHanCharacter(char) THEN {}
    ELSE UNION {pinyinToPyjjCodes(py) : py \in PinyinReadings(char)}

\* The result of parsePyjjTokens: null, or the tokens.
NullTokens == [null |-> TRUE, tokens |-> <<>>]

\* Variant: a trailing single letter is dropped instead of kept as a token.
parsePyjjTokensPairsOnly(input) ==
    IF input = <<>> \/ \E i \in 1..Len(input) : ~IsAsciiLetter(input[i])
    THEN NullTokens
    ELSE [null   |-> FALSE,
          tokens |-> [t \in 1..(Len(input) \div 2) |->
                        [type  |-> "pair",
                         value |-> <<ToLowerCase(input[2 * t - 1]), ToLowerCase(input[2 * t])>>]]]

parsePyjjTokens(input) ==
    IF input = <<>> \/ \E i \in 1..Len(input) : ~IsAsciiLetter(input[i])
    THEN NullTokens
    ELSE LET value == [i \in 1..Len(input) |-> ToLowerCase(input[i])]
         IN [null   |-> FALSE,
             tokens |-> [t \in 1..((Len(value) + 1) \div 2) |->
                           IF 2 * t <= Len(value)
                           THEN [type |-> "pair", value |-> <<value[2 * t - 1], value[2 * t]>>]
                           ELSE [type |-> "single", value |-> <<value[2 * t - 1]>>]]]

\* buildCharInfos: the code points with their UTF-16 offsets.
RECURSIVE CharInfosFrom(_, _)
CharInfosFrom(content, offset) ==
    IF content = <<>> THEN <<>>
    ELSE <<[char |-> Head(content), start |-> offset, end |-> offset + UnitsOf(Head(content))]>>
         \o CharInfosFrom(Tail(content), offset + UnitsOf(Head(content)))

buildCharInfos(content) == CharInfosFrom(content, 0)

\* Variant: a single letter must be a whole code.
matchesTokenExactOnly(char, token) ==
    token.value \in getPyjjCodesForChar(char)

matchesToken(char, token) ==
    LET codes == getPyjjCodesForChar(char)
    IN IF codes = {} THEN FALSE
       ELSE IF token.type = "pair" THEN token.value \in codes
       ELSE \E code \in codes : SubSeq(code, 1, Len(token.value)) = token.value

\* Variant: an unparsable search string is searched for as one single token.
findPyjjMatchesUnparsedAsSingle(search, content, baseIndex) ==
    LET parsed == parsePyjjTokens(search)
        tokens == IF parsed.null
                  THEN <<[type |-> "single", value |-> <<>>]>>
                  ELSE parsed.tokens
        chars  == buildCharInfos(content)
        starts == [i \in 1..Len(chars) |-> i - 1]
        ok(start) == /\ start + Len(tokens) <= Len(chars)
                     /\ \A t \in 1..Len(tokens) : matchesToken(chars[start + t].char, tokens[t])
        hits   == SelectSeq(starts, ok)
    IN [h \in 1..Len(hits) |->
          [index       |-> baseIndex + chars[hits[h] + 1].start,
           matchLength |-> chars[hits[h] + Len(tokens)].end - chars[hits[h] + 1].start,
           linkText    |-> SubSeq(content, hits[h] + 1, hits[h] + Len(tokens)),
           letter      |-> <<>>]]

\* The body of findPyjjMatchesInContent once the search string is parsed and
\* the character infos of the content are built.
matchTokenSequence(parsed, chars, content, baseIndex) ==
    LET tokens == parsed.tokens
        starts == [i \in 1..Len(chars) |-> i - 1]
        ok(start) == /\ start + Len(tokens) <= Len(chars)
                     /\ \A t \in 1..Len(tokens) : matchesToken(chars[start + t].char, tokens[t])
        hits   == SelectSeq(starts, ok)
    IN IF parsed.null \/ tokens = <<>> THEN <<>>
       ELSE IF Len(chars) < Len(tokens) THEN <<>>
       ELSE [h \in 1..Len(hits) |->
               [index       |-> baseIndex + chars[hits[h] + 1].start,
                matchLength |-> chars[hits[h] + Len(tokens)].end - chars[hits[h] + 1].start,
                linkText    |-> SubSeq(content, hits[h] + 1, hits[h] + Len(tokens)),
                letter      |-> <<>>]]

findPyjjMatchesInContent(search, content, baseIndex) ==
    matchTokenSequence(parsePyjjTokens(search), buildCharInfos(content), content, baseIndex)

\* The key of the Map in mergeMatches: `${index}:${matchLength}`.
MergeKey(match) == <<match.index, match.matchLength>>

\* The values of the Map after the lists were inserted in order: the first
\* match of every key, in insertion order.
RECURSIVE KeepFirst(_, _)
KeepFirst(list, seen) ==
    IF list = <<>> THEN <<>>
    ELSE IF MergeKey(Head(list)) \in seen THEN KeepFirst(Tail(list), seen)
    ELSE <<Head(list)>> \o KeepFirst(Tail(list), seen \cup {MergeKey(Head(list))})

\* The comparator of the sort in mergeMatches is negative.
ComesBefore(left, right) ==
    IF left.index # right.index THEN left.index < right.index
    ELSE left.matchLength < right.matchLength

\* Array.prototype.sort with that comparator (a stable sort).
RECURSIVE SortMatches(_)
SortMatches(list) ==
    IF list = <<>> THEN <<>>
    ELSE LET first == CHOOSE i \in 1..Len(list) :
                         /\ \A j \in 1..Len(list) : ~ComesBefore(list[j], list[i])
                         /\ \A j \in 1..(i - 1) : ComesBefore(list[i], list[j])
         IN <<list[first]>>
            \o SortMatches(SubSeq(list, 1, first - 1) \o SubSeq(list, first + 1, Len(list)))

\* Variant: the merged list is left in insertion order.
mergeMatchesUnsorted(literal, pyjj) == KeepFirst(literal \o pyjj, {})

mergeMatches(literal, pyjj) == SortMatches(KeepFirst(literal \o pyjj, {}))

\* The part of getRawMatches that follows the literal search: the literal
\* matches alone unless the input mode is zh-pyjj, else merged with the
\* phonetic ones.
withInputMode(literalMatches, search, content, index) ==
    IF settings.flashInputMode # "zh-pyjj" THEN literalMatches
    ELSE mergeMatches(literalMatches, findPyjjMatchesInContent(search, content, index))

getRawMatches(search, content, index) ==
    withInputMode(findLiteralMatches(search, content, index), search, content, index)

\* Distinct lower-cased non-whitespace characters of the alphabet.
ConflictCandidates ==
    SelectSeq(Dedupe([i \in 1..Len(settings.letters) |-> ToLowerCase(settings.letters[i])]),
              IsNonWhitespace)

\* Variant: only the character that follows the first match is withheld.
collectFirstNextChar(search, content, index) ==
    LET found == getRawMatches(search, content, index)
        next  == IF found = <<>> THEN 0
                 ELSE found[1].index - index + found[1].matchLength + 1
    IN IF next \in 1..Len(content)
       THEN {ToLowerCase(content[next])} \cap Range(ConflictCandidates)
       ELSE {}

\* Variant: no label key is withheld.
collectNoConflictChars(search, content, index) == {}

collectSearchConflictChars(search, content, index) ==
    {c \in Range(ConflictCandidates) :
        Len(getRawMatches(Append(search, c), content, index)) > 0}

\* Variant: the end of a visible range counts as inside it.
IsVisibleInclusive(match) ==
    \E r \in 1..Len(visibleRanges) :
        match.index >= visibleRanges[r].from /\ match.index <= visibleRanges[r].to

IsVisible(match) ==
    \E r \in 1..Len(visibleRanges) :
        match.index >= visibleRanges[r].from /\ match.index < visibleRanges[r].to

\* The matches of the slice that start inside a visible range.
VisibleMatches(search) ==
    LET slice == getVisibleLinesCM6
    IN SelectSeq(getRawMatches(search, slice.content, slice.index), IsVisible)

\* Variant: matches left without a label are kept.
AssignLabelsKeepsUnlabelled(visible, labels) ==
    [i \in 1..Len(visible) |->
        IF i <= Len(labels) THEN [visible[i] EXCEPT !.letter = labels[i]] ELSE visible[i]]

\* Labels assigned positionally; matches left without a label are dropped.
AssignLabels(visible, labels) ==
    [i \in 1..Min(Len(visible), Len(labels)) |-> [visible[i] EXCEPT !.letter = labels[i]]]

\* The end of findMatches: the visible matches get their labels.
labelVisibleMatches(search, slice, visible) ==
    IF visible = <<>> THEN <<>>
    ELSE LET conflicts == collectSearchConflictChars(search, slice.content, slice.index)
             labels    == generateHintLabels(settings.letters, Len(visible), conflicts)
         IN AssignLabels(visible, labels)

\* findMatches once the raw matches of the slice are known.
filterAndLabel(search, slice, raw) ==
    IF raw = <<>> THEN <<>>
    ELSE labelVisibleMatches(search, slice, SelectSeq(raw, IsVisible))

findMatches(search) ==
    LET slice == getVisibleLinesCM6
    IN IF search = <<>> THEN <<>>
       ELSE IF slice.content = <<>> THEN <<>>
       ELSE filterAndLabel(search, slice,
                           getRawMatches(search, slice.content, slice.index))

(***************************************************************************)
(* FlashController.  The operations are written over a record c of the     *)
(* controller's fields, the callbacks invoked so far by the running        *)
(* operation (calls) and the count of completions (completeCount).         *)
(***************************************************************************)
NoMatch == [index |-> -1, matchLength |-> 0, linkText |-> <<>>, letter |-> <<>>]

Ctl ==
    [searchString    |-> searchString,
     isActive        |-> isActive,
     isDeactivating  |-> isDeactivating,
     matches         |-> matches,
     matchedPrefix   |-> matchedPrefix,
     prefixShiftHeld |-> prefixShiftHeld,
     lastShiftKey    |-> lastShiftKey,
     calls           |-> <<>>,
     completeCount   |-> completeCount]

\* One callback invocation, with the controller's fields at that moment
\* (onDecorationUpdate is passed matches, the length of searchString and
\* matchedPrefix; onJump is passed index).
Call(c, name, index, match, useCapital) ==
    [cb            |-> name,
     matches       |-> c.matches,
     searchString  |-> c.searchString,
     matchedPrefix |-> c.matchedPrefix,
     isActive      |-> c.isActive,
     index         |-> index,
     match         |-> match,
     useCapital    |-> useCapital]

notifyDecorationUpdate(c) ==
    [c EXCEPT !.calls = Append(@, Call(c, "onDecorationUpdate", -1, NoMatch, FALSE))]

\* The completion callback given by the plugin clears the plugin's reference
\* to the controller before it cleans up, so it does not call back into it.
onComplete(c) ==
    [c EXCEPT !.calls = Append(@, Call(c, "onComplete", -1, NoMatch, FALSE)),
              !.completeCount = @ + 1]

\* Variant: without the guard on isDeactivating and isActive.
deactivateUnguarded(c) ==
    LET cleared == [c EXCEPT !.isDeactivating = TRUE,
                             !.isActive = FALSE,
                             !.searchString = <<>>,
                             !.matches = <<>>,
                             !.matchedPrefix = "",
                             !.prefixShiftHeld = FALSE,
                             !.lastShiftKey = FALSE]
        done == onComplete(notifyDecorationUpdate(cleared))
    IN [done EXCEPT !.isDeactivating = FALSE]

\* Variant: the completion callback runs before the state is cleared.
deactivateCompleteFirst(c) ==
    IF c.isDeactivating \/ ~c.isActive THEN c
    ELSE LET completed == onComplete([c EXCEPT !.isDeactivating = TRUE])
             cleared == [completed EXCEPT !.isActive = FALSE,
                                          !.searchString = <<>>,
                                          !.matches = <<>>,
                                          !.matchedPrefix = "",
                                          !.prefixShiftHeld = FALSE,
                                          !.lastShiftKey = FALSE]
         IN [notifyDecorationUpdate(cleared) EXCEPT !.isDeactivating = FALSE]

\* Variant: the decorations are notified before the state is cleared.
deactivateNotifyBeforeClear(c) ==
    IF c.isDeactivating \/ ~c.isActive THEN c
    ELSE LET notified == notifyDecorationUpdate([c EXCEPT !.isDeactivating = TRUE])
             cleared == [notified EXCEPT !.isActive = FALSE,
                                         !.searchString = <<>>,
                                         !.matches = <<>>,
                                         !.matchedPrefix = "",
                                         !.prefixShiftHeld = FALSE,
                                         !.lastShiftKey = FALSE]
         IN [onComplete(cleared) EXCEPT !.isDeactivating = FALSE]

deactivate(c) ==
    IF c.isDeactivating \/ ~c.isActive THEN c
    ELSE LET cleared == [c EXCEPT !.isDeactivating = TRUE,
                                  !.isActive = FALSE,
                                  !.searchString = <<>>,
                                  !.matches = <<>>,
                                  !.matchedPrefix = "",
                                  !.prefixShiftHeld = FALSE,
                                  !.lastShiftKey = FALSE]
             done == onComplete(notifyDecorationUpdate(cleared))
         IN [done EXCEPT !.isDeactivating = FALSE]

\* Buffer of the word-boundary scans.
bufferSize == 100

RECURSIVE ScanBack(_, _)
\* content is doc[searchStart, pos); offset counts down while the character
\* before it is a word character.
ScanBack(content, offset) ==
    IF offset > 0 /\ IsWordChar(content[offset]) THEN ScanBack(content, offset - 1)
    ELSE offset

\* Variant: the scan goes back over the whole document.
findWordStartWholeDocument(pos) ==
    ScanBack(SubSeq(doc, 1, pos), pos)

findWordStart(pos) ==
    LET searchStart == Max(0, pos - bufferSize)
        content     == SubSeq(doc, searchStart + 1, pos)
    IN searchStart + ScanBack(content, Len(content))

RECURSIVE ScanForward(_, _)
ScanForward(content, offset) ==
    IF offset < Len(content) /\ IsWordChar(content[offset + 1])
    THEN ScanForward(content, offset + 1)
    ELSE offset

findWordEnd(pos) ==
    LET searchEnd == Min(Len(doc), pos + bufferSize)
        content   == SubSeq(doc, pos + 1, searchEnd)
    IN pos + ScanForward(content, 0)

JumpPositions ==
    {"match-start", "match-end", "after-match-end", "word-start", "word-end", "after-word-end"}

\* Variant: the capital policy is never consulted.
calculateJumpPositionNormalOnly(match, useCapital) ==
    LET setting    == settings.flashJumpPosition
        matchStart == match.index
        matchEnd   == match.index + match.matchLength
    IN CASE setting = "match-start"     -> matchStart
         [] setting = "match-end"       -> matchEnd - 1
         [] setting = "after-match-end" -> matchEnd
         [] setting = "word-start"      -> findWordStart(matchStart)
         [] setting = "word-end"        -> findWordEnd(matchEnd)
         [] setting = "after-word-end"  -> findWordEnd(matchEnd) + 1
         [] OTHER                       -> matchStart

calculateJumpPosition(match, useCapital) ==
    LET setting    == IF useCapital THEN settings.flashJumpPositionCapital
                      ELSE settings.flashJumpPosition
        matchStart == match.index
        matchEnd   == match.index + match.matchLength
    IN CASE setting = "match-start"     -> matchStart
         [] setting = "match-end"       -> matchEnd - 1
         [] setting = "after-match-end" -> matchEnd
         [] setting = "word-start"      -> findWordStart(matchStart)
         [] setting = "word-end"        -> findWordEnd(matchEnd)
         [] setting = "after-word-end"  -> findWordEnd(matchEnd) + 1
         [] OTHER                       -> matchStart

\* Variant: the session goes on after the jump.
jumpToMatchStaysActive(c, match, useCapital) ==
    [c EXCEPT !.calls = Append(@, Call(c, "onJump", calculateJumpPosition(match, useCapital),
                                       match, useCapital))]

jumpToMatch(c, match, useCapital) ==
    LET jumpPosition == calculateJumpPosition(match, useCapital)
        jumped == [c EXCEPT !.calls = Append(@, Call(c, "onJump", jumpPosition, match, useCapital))]
    IN deactivate(jumped)

\* Variant: without the check of the minimum length.
updateMatchesNoMinimum(c) ==
    LET found == [c EXCEPT !.matches = findMatches(c.searchString)]
    IN IF Len(found.matches) = 1
       THEN jumpToMatch(found, found.matches[1], found.lastShiftKey)
       ELSE notifyDecorationUpdate(found)

\* Lines 300-308 of updateMatches: a single match is jumped to, any other
\* number is displayed.
jumpIfSingle(found) ==
    IF Len(found.matches) = 1
    THEN jumpToMatch(found, found.matches[1], found.lastShiftKey)
    ELSE notifyDecorationUpdate(found)

updateMatches(c) ==
    IF Len(c.searchString) < settings.flashCharacterCount
    THEN notifyDecorationUpdate([c EXCEPT !.matches = <<>>])
    ELSE jumpIfSingle([c EXCEPT !.matches = findMatches(c.searchString)])

\* Array.prototype.find over the live matches: the first with that label.
FindByLetter(ms, label) ==
    LET hits == SelectSeq(ms, LAMBDA m : m.letter = label)
    IN IF hits = <<>> THEN NoMatch ELSE hits[1]

\* Lines 272-274: add the key to the search string and recompute.
AppendAndUpdate(c, key) ==
    updateMatches([c EXCEPT !.searchString = Append(@, key)])

\* Variant: a label or a prefix is looked for before the extension of the
\* search string is tried.
PlainLabelModeLabelFirst(c, key, shiftKey) ==
    LET normalizedKey    == normalizeKeypress(key)
        potentialSearch  == Append(c.searchString, key)
        potentialMatches == findMatches(potentialSearch)
        lowerKey         == ToLowerCase(normalizedKey)
        exactMatch       == FindByLetter(c.matches, <<lowerKey>>)
        prefixMatches    == SelectSeq(c.matches,
                                LAMBDA m : Len(m.letter) = 2 /\ m.letter[1] = lowerKey)
    IN IF exactMatch # NoMatch
       THEN jumpToMatch(c, exactMatch, shiftKey)
       ELSE IF Len(prefixMatches) > 0
       THEN notifyDecorationUpdate([c EXCEPT !.matchedPrefix = lowerKey,
                                             !.prefixShiftHeld = shiftKey,
                                             !.matches = prefixMatches])
       ELSE IF Len(potentialMatches) = 1
       THEN jumpToMatch([c EXCEPT !.searchString = potentialSearch,
                                  !.matches = potentialMatches],
                        potentialMatches[1], shiftKey)
       ELSE notifyDecorationUpdate([c EXCEPT !.searchString = potentialSearch,
                                             !.matches = potentialMatches])

\* Variant: a one-letter label always jumps with the normal position policy.
PlainLabelModeLabelNeverCapital(c, key, shiftKey) ==
    LET normalizedKey    == normalizeKeypress(key)
        potentialSearch  == Append(c.searchString, key)
        potentialMatches == findMatches(potentialSearch)
        lowerKey         == ToLowerCase(normalizedKey)
        exactMatch       == FindByLetter(c.matches, <<lowerKey>>)
        prefixMatches    == SelectSeq(c.matches,
                                LAMBDA m : Len(m.letter) = 2 /\ m.letter[1] = lowerKey)
    IN IF Len(potentialMatches) > 0
       THEN LET extended == [c EXCEPT !.searchString = potentialSearch,
                                      !.matches = potentialMatches]
            IN IF Len(potentialMatches) = 1
               THEN jumpToMatch(extended, potentialMatches[1], shiftKey)
               ELSE notifyDecorationUpdate(extended)
       ELSE IF exactMatch # NoMatch
       THEN jumpToMatch(c, exactMatch, FALSE)
       ELSE IF Len(prefixMatches) > 0
       THEN notifyDecorationUpdate([c EXCEPT !.matchedPrefix = lowerKey,
                                             !.prefixShiftHeld = shiftKey,
                                             !.matches = prefixMatches])
       ELSE notifyDecorationUpdate([c EXCEPT !.searchString = potentialSearch,
                                             !.matches = <<>>])

\* Variant: entering a prefix does not filter the live matches.
PlainLabelModePrefixKeepsAll(c, key, shiftKey) ==
    LET normalizedKey    == normalizeKeypress(key)
        potentialSearch  == Append(c.searchString, key)
        potentialMatches == findMatches(potentialSearch)
        lowerKey         == ToLowerCase(normalizedKey)
        exactMatch       == FindByLetter(c.matches, <<lowerKey>>)
        prefixMatches    == SelectSeq(c.matches,
                                LAMBDA m : Len(m.letter) = 2 /\ m.letter[1] = lowerKey)
    IN IF Len(potentialMatches) > 0
       THEN LET extended == [c EXCEPT !.searchString = potentialSearch,
                                      !.matches = potentialMatches]
            IN IF Len(potentialMatches) = 1
               THEN jumpToMatch(extended, potentialMatches[1], shiftKey)
               ELSE notifyDecorationUpdate(extended)
       ELSE IF exactMatch # NoMatch
       THEN jumpToMatch(c, exactMatch, shiftKey)
       ELSE IF Len(prefixMatches) > 0
       THEN notifyDecorationUpdate([c EXCEPT !.matchedPrefix = lowerKey,
                                             !.prefixShiftHeld = shiftKey,
                                             !.matches = c.matches])
       ELSE notifyDecorationUpdate([c EXCEPT !.searchString = potentialSearch,
                                             !.matches = <<>>])

\* Variant: a key that is no extension, no label and no prefix is ignored.
PlainLabelModeIgnoresDeadKey(c, key, shiftKey) ==
    LET normalizedKey    == normalizeKeypress(key)
        potentialSearch  == Append(c.searchString, key)
        potentialMatches == findMatches(potentialSearch)
        lowerKey         == ToLowerCase(normalizedKey)
        exactMatch       == FindByLetter(c.matches, <<lowerKey>>)
        prefixMatches    == SelectSeq(c.matches,
                                LAMBDA m : Len(m.letter) = 2 /\ m.letter[1] = lowerKey)
    IN IF Len(potentialMatches) > 0
       THEN LET extended == [c EXCEPT !.searchString = potentialSearch,
                                      !.matches = potentialMatches]
            IN IF Len(potentialMatches) = 1
               THEN jumpToMatch(extended, potentialMatches[1], shiftKey)
               ELSE notifyDecorationUpdate(extended)
       ELSE IF exactMatch # NoMatch
       THEN jumpToMatch(c, exactMatch, shiftKey)
       ELSE IF Len(prefixMatches) > 0
       THEN notifyDecorationUpdate([c EXCEPT !.matchedPrefix = lowerKey,
                                             !.prefixShiftHeld = shiftKey,
                                             !.matches = prefixMatches])
       ELSE c

\* Lines 216-268: plain searching at or above the minimum length, with matches.
PlainLabelMode(c, key, shiftKey) ==
    LET normalizedKey    == normalizeKeypress(key)
        potentialSearch  == Append(c.searchString, key)
        potentialMatches == findMatches(potentialSearch)
        lowerKey         == ToLowerCase(normalizedKey)
        exactMatch       == FindByLetter(c.matches, <<lowerKey>>)
        prefixMatches    == SelectSeq(c.matches,
                                LAMBDA m : Len(m.letter) = 2 /\ m.letter[1] = lowerKey)
    IN IF Len(potentialMatches) > 0
       THEN LET extended == [c EXCEPT !.searchString = potentialSearch,
                                      !.matches = potentialMatches]
            IN IF Len(potentialMatches) = 1
               THEN jumpToMatch(extended, potentialMatches[1], shiftKey)
               ELSE notifyDecorationUpdate(extended)
       ELSE IF exactMatch # NoMatch
       THEN jumpToMatch(c, exactMatch, shiftKey)
       ELSE IF Len(prefixMatches) > 0
       THEN notifyDecorationUpdate([c EXCEPT !.matchedPrefix = lowerKey,
                                             !.prefixShiftHeld = shiftKey,
                                             !.matches = prefixMatches])
       ELSE notifyDecorationUpdate([c EXCEPT !.searchString = potentialSearch,
                                             !.matches = <<>>])

\* Variant: only the shift state of the second keystroke decides the variant.
PrefixPendingThisShiftOnly(c, key, shiftKey) ==
    LET normalizedKey == normalizeKeypress(key)
        fullLabel     == <<c.matchedPrefix, ToLowerCase(normalizedKey)>>
        match         == FindByLetter(c.matches, fullLabel)
    IN IF match # NoMatch
       THEN jumpToMatch(c, match, shiftKey)
       ELSE AppendAndUpdate([c EXCEPT !.matchedPrefix = "", !.prefixShiftHeld = FALSE], key)

\* Variant: a key that completes no label is handled by the plain-searching
\* branch (extension, label, prefix, empty commit).
PrefixPendingRetryAsLabel(c, key, shiftKey) ==
    LET normalizedKey == normalizeKeypress(key)
        fullLabel     == <<c.matchedPrefix, ToLowerCase(normalizedKey)>>
        match         == FindByLetter(c.matches, fullLabel)
    IN IF match # NoMatch
       THEN jumpToMatch(c, match, c.prefixShiftHeld \/ shiftKey)
       ELSE PlainLabelMode([c EXCEPT !.matchedPrefix = "", !.prefixShiftHeld = FALSE],
                           key, shiftKey)

\* Lines 199-214: a prefix is pending.
PrefixPending(c, key, shiftKey) ==
    LET normalizedKey == normalizeKeypress(key)
        fullLabel     == <<c.matchedPrefix, ToLowerCase(normalizedKey)>>
        match         == FindByLetter(c.matches, fullLabel)
    IN IF match # NoMatch
       THEN jumpToMatch(c, match, c.prefixShiftHeld \/ shiftKey)
       ELSE AppendAndUpdate([c EXCEPT !.matchedPrefix = "", !.prefixShiftHeld = FALSE], key)

\* Variant: the modifier check comes first, so Escape, Tab and Backspace
\* (all in MODIFIER_KEYS) are ignored.
handleKeyDownModifiersFirst(c0, key, shiftKey) ==
    LET c == [c0 EXCEPT !.lastShiftKey = shiftKey]
    IN IF isModifierKey(key) THEN c
       ELSE IF isPrintable(key)
       THEN IF Len(c.searchString) >= settings.flashCharacterCount /\ Len(c.matches) > 0
            THEN IF c.matchedPrefix # ""
                 THEN PrefixPending(c, key, shiftKey)
                 ELSE PlainLabelMode(c, key, shiftKey)
            ELSE AppendAndUpdate(c, key)
       ELSE c

\* Variant: Backspace in prefix-pending also removes the last character of the
\* search string.
handleKeyDownBackspaceAlwaysPops(c0, key, shiftKey) ==
    LET c == [c0 EXCEPT !.lastShiftKey = shiftKey]
    IN IF key = "Escape" THEN deactivate(c)
       ELSE IF key = "Backspace"
       THEN IF c.matchedPrefix # ""
            THEN updateMatches([c EXCEPT !.matchedPrefix = "", !.prefixShiftHeld = FALSE,
                                         !.searchString = SubSeq(@, 1, Len(@) - 1)])
            ELSE IF Len(c.searchString) > 0
            THEN updateMatches([c EXCEPT !.searchString = SubSeq(@, 1, Len(@) - 1)])
            ELSE c
       ELSE IF key = "Tab" THEN deactivate(c)
       ELSE IF isModifierKey(key) THEN c
       ELSE IF isPrintable(key)
       THEN IF Len(c.searchString) >= settings.flashCharacterCount /\ Len(c.matches) > 0
            THEN IF c.matchedPrefix # ""
                 THEN PrefixPending(c, key, shiftKey)
                 ELSE PlainLabelMode(c, key, shiftKey)
            ELSE AppendAndUpdate(c, key)
       ELSE c

\* Variant: the shift state of a modifier key is not stored.
handleKeyDownShiftStoredLate(c0, key, shiftKey) ==
    LET c == IF isModifierKey(key) /\ key \notin SpecialKeys THEN c0
             ELSE [c0 EXCEPT !.lastShiftKey = shiftKey]
    IN IF key = "Escape" THEN deactivate(c)
       ELSE IF key = "Backspace"
       THEN IF c.matchedPrefix # ""
            THEN updateMatches([c EXCEPT !.matchedPrefix = "", !.prefixShiftHeld = FALSE])
            ELSE IF Len(c.searchString) > 0
            THEN updateMatches([c EXCEPT !.searchString = SubSeq(@, 1, Len(@) - 1)])
            ELSE c
       ELSE IF key = "Tab" THEN deactivate(c)
       ELSE IF isModifierKey(key) THEN c
       ELSE IF isPrintable(key)
       THEN IF Len(c.searchString) >= settings.flashCharacterCount /\ Len(c.matches) > 0
            THEN IF c.matchedPrefix # ""
                 THEN PrefixPending(c, key, shiftKey)
                 ELSE PlainLabelMode(c, key, shiftKey)
            ELSE AppendAndUpdate(c, key)
       ELSE c

handleKeyDown(c0, key, shiftKey) ==
    LET c == [c0 EXCEPT !.lastShiftKey = shiftKey]
    IN IF key = "Escape" THEN deactivate(c)
       ELSE IF key = "Backspace"
       THEN IF c.matchedPrefix # ""
            THEN updateMatches([c EXCEPT !.matchedPrefix = "", !.prefixShiftHeld = FALSE])
            ELSE IF Len(c.searchString) > 0
            THEN updateMatches([c EXCEPT !.searchString = SubSeq(@, 1, Len(@) - 1)])
            ELSE c
       ELSE IF key = "Tab" THEN deactivate(c)
       ELSE IF isModifierKey(key) THEN c
       ELSE IF isPrintable(key)
       THEN IF Len(c.searchString) >= settings.flashCharacterCount /\ Len(c.matches) > 0
            THEN IF c.matchedPrefix # ""
                 THEN PrefixPending(c, key, shiftKey)
                 ELSE PlainLabelMode(c, key, shiftKey)
            ELSE AppendAndUpdate(c, key)
       ELSE c

\* activate()
activate(c) ==
    [c EXCEPT !.isActive = TRUE,
              !.searchString = <<>>,
              !.matches = <<>>,
              !.matchedPrefix = "",
              !.prefixShiftHeld = FALSE,
              !.lastShiftKey = FALSE,
              !.completeCount = 0]

(***************************************************************************)
(* FlashWidgetPlugin: the matches the decorations are built from and the   *)
(* matched key; onDecorationUpdate of FlashPlugin.handleFlashJump drives   *)
(* it from the arguments of the decoration callback.                       *)
(***************************************************************************)
NoWidget == [matches |-> <<>>, matchedKey |-> ""]

setMatches(w, ms) == [w EXCEPT !.matches = ms, !.matchedKey = ""]

filterByKey(w, key) ==
    [w EXCEPT !.matchedKey = key,
              !.matches = SelectSeq(@, LAMBDA m :
                              /\ Len(m.letter) > 1
                              /\ ToUpperCase(m.letter[1]) = ToUpperCase(key))]

clear(w) == [w EXCEPT !.matches = <<>>, !.matchedKey = ""]

\* Variant: filterByKey is never called.
onDecorationUpdateNeverFilters(w, ms, prefix) ==
    IF Len(ms) = 0 THEN clear(w)
    ELSE setMatches(w, ms)

onDecorationUpdate(w, ms, prefix) ==
    IF Len(ms) = 0 THEN clear(w)
    ELSE IF prefix # "" THEN filterByKey(setMatches(w, ms), prefix)
    ELSE setMatches(w, ms)

\* The widget after the decoration callbacks of one operation, in order.
RECURSIVE ApplyDecorationUpdates(_, _)
ApplyDecorationUpdates(w, log) ==
    IF log = <<>> THEN w
    ELSE ApplyDecorationUpdates(
             IF Head(log).cb = "onDecorationUpdate"
             THEN onDecorationUpdate(w, Head(log).matches, Head(log).matchedPrefix)
             ELSE w,
             Tail(log))

(***************************************************************************)
(* FlashPlugin (main.ts): the mode flag, the reference to the controller,  *)
(* the handlers of the link-hint mode and of the legacy flash mode.  A     *)
(* controller is represented by what the plugin depends on: whether it is  *)
(* active, whether it is deactivating, and how often it has completed.     *)
(***************************************************************************)
\* Controllers constructed in one behaviour.
MaxControllers == 3

NoPlugin ==
    [isLinkHintActive   |-> FALSE,
     flashController    |-> 0,        \* index into controllers, 0 for null
     controllers        |-> <<>>,     \* every FlashController constructed so far
     mode               |-> "source", \* VIEW_MODE: "source" or "preview"
     keyDownHandler     |-> "none",   \* link-hint handlers: "none", or the labels
                                      \* of the hints ("singles", "pairs")
     prefixInfo         |-> FALSE,    \* prefixInfo is defined
     legacyFlashHandler |-> FALSE,
     keyArray           |-> 0]        \* keys grabbed by the legacy handler

RECURSIVE removePopovers(_)
RECURSIVE controllerDeactivate(_, _)

\* Variant: deactivate() without its guard, with a completion callback that
\* keeps the plugin's reference to the controller.
controllerDeactivateReentrant(p, i) ==
    LET entered == [p EXCEPT !.controllers[i].isDeactivating = TRUE,
                             !.controllers[i].isActive = FALSE]
        completed == removePopovers(
            [entered EXCEPT !.controllers[i].completeCount = @ + 1])
    IN [completed EXCEPT !.controllers[i].isDeactivating = FALSE]

\* FlashController.deactivate() of controller i, whose onComplete is the
\* closure of handleFlashJump: flashController = null, then removePopovers().
controllerDeactivate(p, i) ==
    IF p.controllers[i].isDeactivating \/ ~p.controllers[i].isActive THEN p
    ELSE LET entered == [p EXCEPT !.controllers[i].isDeactivating = TRUE,
                                  !.controllers[i].isActive = FALSE]
             completed == removePopovers(
                 [entered EXCEPT !.controllers[i].completeCount = @ + 1,
                                 !.flashController = 0])
         IN [completed EXCEPT !.controllers[i].isDeactivating = FALSE]

removePopovers(p) ==
    LET unhooked == [p EXCEPT !.keyDownHandler = "none"]
        torn == IF unhooked.flashController # 0
                THEN controllerDeactivate([unhooked EXCEPT !.flashController = 0],
                                          unhooked.flashController)
                ELSE unhooked
    IN [torn EXCEPT !.prefixInfo = FALSE, !.isLinkHintActive = FALSE]

\* hints: "none", "one", "singles" (several, one-letter labels), "pairs"
\* (several, some with two-letter labels).
handleActions(p, hints, jumpToLinkIfOneLinkOnly) ==
    IF hints = "none" THEN p
    ELSE IF hints = "one" /\ jumpToLinkIfOneLinkOnly THEN removePopovers(p)
    ELSE [p EXCEPT !.keyDownHandler = IF hints = "pairs" THEN "pairs" ELSE "singles",
                   !.isLinkHintActive = TRUE]

handleJumpToRegex(p, env) ==
    IF p.mode = "preview" THEN p
    ELSE handleActions(p, env.hints, env.jumpToLinkIfOneLinkOnly)

cleanupLegacyFlash(p) ==
    [p EXCEPT !.legacyFlashHandler = FALSE, !.keyArray = 0]

handleFlashJumpLegacy(p, env) ==
    LET cleaned == cleanupLegacyFlash(p)
    IN IF ~env.activeView \/ ~env.contentContainer THEN cleaned
       ELSE [cleaned EXCEPT !.legacyFlashHandler = TRUE]

NewController == [isActive |-> TRUE, isDeactivating |-> FALSE, completeCount |-> 0]

handleFlashJump(p, env) ==
    IF ~env.activeView THEN p
    ELSE IF ~env.flashWidget THEN handleFlashJumpLegacy(p, env)
    ELSE [p EXCEPT !.controllers = Append(@, NewController),
                   !.flashController = Len(p.controllers) + 1,
                   !.isLinkHintActive = TRUE]

\* Variant: without the check of isLinkHintActive.
actionUnguarded(p, type, env) ==
    IF ~env.activeView THEN p
    ELSE LET q == [p EXCEPT !.mode = env.mode]
         IN CASE type = "link"   -> handleActions(q, env.hints, env.jumpToLinkIfOneLinkOnly)
              [] type = "regexp" -> handleJumpToRegex(q, env)
              [] type = "flash"  -> handleFlashJump(q, env)

action(p, type, env) ==
    IF p.isLinkHintActive THEN p
    ELSE IF ~env.activeView THEN p
    ELSE LET q == [p EXCEPT !.mode = env.mode]
         IN CASE type = "link"   -> handleActions(q, env.hints, env.jumpToLinkIfOneLinkOnly)
              [] type = "regexp" -> handleJumpToRegex(q, env)
              [] type = "flash"  -> handleFlashJump(q, env)

\* The keydown handler of handleActions.  kind: "Escape", "modifier",
\* "prefix" (the first letter of a two-letter label that is no label
\* itself), "other".
linkKeyDown(p, kind) ==
    IF kind = "Escape" THEN removePopovers(p)
    ELSE IF kind = "modifier" THEN p
    ELSE IF ~p.prefixInfo /\ kind = "prefix" /\ p.keyDownHandler = "pairs"
    THEN [p EXCEPT !.prefixInfo = TRUE]
    ELSE removePopovers(p)

\* grabKey of handleFlashJumpLegacy.  kind: "Escape", "char" (one
\* character), "named".
grabKey(p, kind, env) ==
    IF kind = "Escape" THEN cleanupLegacyFlash(p)
    ELSE LET pushed == [p EXCEPT !.keyArray = IF kind = "char" THEN @ + 1 ELSE @]
         IN IF pushed.keyArray = settings.flashCharacterCount
            THEN cleanupLegacyFlash(handleJumpToRegex(pushed, env))
            ELSE pushed

\* Jumps made in one behaviour.
MaxJumps == 2

\* Offsets of the document.
Offsets == 0..DocLen

\* The editor's main selection, the callbacks passed to setTimeout that have
\* not run yet (their captured index, in the order they were scheduled), and
\* the dispatch calls of the last step.  History: the last jump (its index,
\* whether it set a selection, the timers pending when it was made), the
\* number of jumps, and whether the host moved the cursor since the last
\* jump.
NoEditor ==
    [anchor |-> 0, head |-> 0, timers |-> <<>>, dispatches |-> 0,
     lastJump |-> [index |-> 0, useSelection |-> FALSE, pending |-> 0],
     jumps |-> 0, moved |-> FALSE]

\* cursorBeforeJump: the vim mode and the anchor (-1 for undefined).
CursorStates == [vimMode : {"normal", "visual", "visual block"}, anchor : {-1, 0}]

\* Variant: the callback tries again when it had to move the cursor.
timerCallbackRetries(e, index) ==
    IF e.head # index
    THEN [e EXCEPT !.anchor = index, !.head = index, !.dispatches = 1,
                   !.timers = Append(@, index)]
    ELSE [e EXCEPT !.dispatches = 0]

\* The callback passed to setTimeout by jumpToPosition.
timerCallback(e, index) ==
    IF e.head # index
    THEN [e EXCEPT !.anchor = index, !.head = index, !.dispatches = 1]
    ELSE [e EXCEPT !.dispatches = 0]

\* jumpToPosition for an EditorView.
jumpToPosition(e, index, cursorBeforeJump) ==
    LET useSelection == cursorBeforeJump.vimMode \in {"visual", "visual block"}
    IN IF useSelection /\ cursorBeforeJump.anchor # -1
       THEN [e EXCEPT !.anchor = cursorBeforeJump.anchor, !.head = index,
                      !.dispatches = 1]
       ELSE [e EXCEPT !.anchor = index, !.head = index, !.dispatches = 1,
                      !.timers = Append(@, index)]

(***************************************************************************)
(* Initial states: a document, the host's viewport and visible ranges, and *)
(* the settings; a controller that was constructed and not yet activated.  *)
(***************************************************************************)
\* Minimum search length, case sensitivity and the two jump-position
\* policies (normal, capital); the first policy pair is the default one and
\* the three pairs cover the six policies.
DefaultProfile ==
    [min |-> 1, cs |-> FALSE, jp |-> "match-end", jpCapital |-> "match-start"]
CaseSensitiveProfile ==
    [min |-> 1, cs |-> TRUE, jp |-> "after-match-end", jpCapital |-> "after-word-end"]
TwoCharProfile ==
    [min |-> 2, cs |-> FALSE, jp |-> "word-start", jpCapital |-> "word-end"]

SettingsOf(l, p) ==
    [letters                  |-> l,
     flashCharacterCount      |-> p.min,
     flashCaseSensitive       |-> p.cs,
     flashJumpPosition        |-> p.jp,
     flashJumpPositionCapital |-> p.jpCapital,
     flashInputMode           |-> "literal"]

\* A host whose slice is wider than what is visible: the first and the last
\* character of an n-character document are visible.
OverFetchHost(n) ==
    [viewport |-> [from |-> 0, to |-> n],
     visibleRanges |-> <<[from |-> 0, to |-> 1], [from |-> n - 1, to |-> n]>>]

\* A host whose slice starts at the second character, all of it visible.
OffsetHost(n) ==
    [viewport |-> [from |-> 1, to |-> n],
     visibleRanges |-> <<[from |-> 1, to |-> n]>>]

\* A host that shows the whole document.
WholeHost(n) ==
    [viewport |-> [from |-> 0, to |-> n],
     visibleRanges |-> <<[from |-> 0, to |-> n]>>]

\* Short documents over all document characters, with two-letter alphabets
\* (one with a repeated letter).
ShortDocs == [1..DocLen -> DocChars]
ShortConfigs ==
    {[host |-> OverFetchHost(DocLen), settings |-> SettingsOf(<<"a", "x", "a">>, DefaultProfile)],
     [host |-> OffsetHost(DocLen),    settings |-> SettingsOf(<<"a", "b">>, TwoCharProfile)]}

\* Longer documents of a lower-case and an upper-case letter, all of it
\* visible, with a three-letter alphabet: more matches than single-letter
\* labels.
LongDocs == [1..DocLen + 1 -> {"x", "A"}]
LongConfigs ==
    {[host |-> WholeHost(DocLen + 1), settings |-> SettingsOf(<<"b", "c", "a">>, DefaultProfile)],
     [host |-> WholeHost(DocLen + 1), settings |-> SettingsOf(<<"b", "c", "a">>, CaseSensitiveProfile)]}

HostInit ==
    \E family \in {[docs |-> ShortDocs, configs |-> ShortConfigs],
                   [docs |-> LongDocs, configs |-> LongConfigs]} :
        /\ doc \in family.docs
        /\ \E config \in family.configs :
              /\ viewport = config.host.viewport
              /\ visibleRanges = config.host.visibleRanges
              /\ settings = config.settings

NoOp == [op |-> "none", wasActive |-> FALSE, prefixBefore |-> "", afterDeactivate |-> FALSE]

NoGenIn == [alphabet |-> <<>>, count |-> 0, excluded |-> {}]
NoGenOut == [called |-> FALSE, labels |-> <<>>]
NoMergeIn == [literal |-> <<>>, pyjj |-> <<>>]

CtlInit ==
    /\ searchString = <<>>
    /\ isActive = FALSE
    /\ isDeactivating = FALSE
    /\ matches = <<>>
    /\ matchedPrefix = ""
    /\ prefixShiftHeld = FALSE
    /\ lastShiftKey = FALSE
    /\ calls = <<>>
    /\ completeCount = 0
    /\ lastOp = NoOp

Init ==
    /\ HostInit
    /\ CtlInit
    /\ genIn = NoGenIn
    /\ genOut = NoGenOut
    /\ plugin = NoPlugin
    /\ mergeIn = NoMergeIn
    /\ widget = NoWidget
    /\ editor = NoEditor

(***************************************************************************)
(* Actions.                                                                *)
(***************************************************************************)
\* The controller's fields, the callbacks of this operation and lastOp.
Becomes(c, op) ==
    /\ lastOp' = [op |-> op, wasActive |-> isActive, prefixBefore |-> matchedPrefix,
                  afterDeactivate |-> (lastOp.op = "deactivate")]
    /\ isActive' = c.isActive
    /\ lastShiftKey' = c.lastShiftKey
    /\ isDeactivating' = c.isDeactivating
    /\ matchedPrefix' = c.matchedPrefix
    /\ prefixShiftHeld' = c.prefixShiftHeld
    /\ completeCount' = c.completeCount
    /\ searchString' = c.searchString
    /\ matches' = c.matches
    /\ calls' = c.calls
    /\ UNCHANGED <<hostVars, plugin, genVars>>
    /\ widget' = ApplyDecorationUpdates(widget, c.calls)

\* FlashPlugin.action('flash') -> handleFlashJump: rejected while a mode is
\* active, otherwise a controller is constructed and activated.
Activate ==
    /\ ~isActive
    /\ Becomes(activate(Ctl), "activate")

\* The kind of a key, as handleKeyDown tells them apart.
KeyKind(key) ==
    IF key \in SpecialKeys THEN key
    ELSE IF isPrintable(key) /\ ~isModifierKey(key) THEN "printable"
    ELSE "ignored"

\* A keydown event delivered by the handler registered in activate() and
\* removed in deactivate().
\* The controller becomes c, the outcome of a keystroke; the search string is
\* kept within MaxSearchLen.
Delivered(c, op) ==
    /\ Len(c.searchString) <= MaxSearchLen
    /\ Becomes(c, op)

HandleKey(key, shiftKey) ==
    /\ isActive
    /\ Delivered(handleKeyDown(Ctl, key, shiftKey), KeyKind(key))

KeyEscape == \E shiftKey \in BOOLEAN : HandleKey("Escape", shiftKey)

KeyTab == \E shiftKey \in BOOLEAN : HandleKey("Tab", shiftKey)

KeyBackspace == \E shiftKey \in BOOLEAN : HandleKey("Backspace", shiftKey)

KeyIgnored ==
    \E key \in (MODIFIER_KEYS \ SpecialKeys) \cup OtherNamedKeys, shiftKey \in BOOLEAN :
        HandleKey(key, shiftKey)

KeyPrintable == \E key \in PrintableKeys, shiftKey \in BOOLEAN : HandleKey(key, shiftKey)

\* The click handler, registered while the controller is active.
Click ==
    /\ isActive
    /\ Becomes(deactivate(Ctl), "click")

\* deactivate() called from outside, in any state.
Deactivate == Becomes(deactivate(Ctl), "deactivate")

Next ==
    \/ Activate
    \/ KeyEscape
    \/ KeyTab
    \/ KeyBackspace
    \/ KeyIgnored
    \/ KeyPrintable
    \/ Click
    \/ Deactivate

Spec == Init /\ [][Next]_vars

(***************************************************************************)
(* The label generator checked alone: its arguments are drawn from bounded *)
(* sets and one action applies it.                                         *)
(***************************************************************************)
Alphabets == UNION {[1..n -> LabelChars] : n \in 0..MaxAlphabetLen}

InitGen ==
    /\ doc = [i \in 1..DocLen |-> "x"]
    /\ viewport = [from |-> 0, to |-> DocLen]
    /\ visibleRanges = <<[from |-> 0, to |-> DocLen]>>
    /\ settings = SettingsOf(<<"a", "b">>, DefaultProfile)
    /\ CtlInit
    /\ genIn \in [alphabet : Alphabets, count : 0..MaxCount, excluded : SUBSET LabelChars]
    /\ genOut = NoGenOut
    /\ plugin = NoPlugin
    /\ mergeIn = NoMergeIn
    /\ widget = NoWidget
    /\ editor = NoEditor

GenCall ==
    /\ ~genOut.called
    /\ genOut' = [called |-> TRUE,
                  labels |-> generateHintLabels(genIn.alphabet, genIn.count, genIn.excluded)]
    /\ UNCHANGED <<hostVars, plugin, ctlVars, calls, completeCount, lastOp, genIn, mergeIn, widget>>

NextGen == GenCall

SpecGen == InitGen /\ [][NextGen]_vars

(***************************************************************************)
(* The literal match finder checked alone: a text, a base offset, a search *)
(* string and the case-sensitivity flag are drawn from bounded sets and    *)
(* one action applies findLiteralMatches to them.                          *)
(***************************************************************************)
\* Characters of the texts and search strings: a letter in both cases and a
\* character that is special in a regular expression.
FindChars == {"a", "A", "."}
FindTexts == UNION {[1..n -> FindChars] : n \in 0..DocLen + 1}
FindSearches == UNION {[1..n -> FindChars] : n \in 1..MaxSearchLen}

InitFind ==
    /\ doc \in FindTexts
    /\ \E from \in 0..1 :
          /\ from <= Len(doc)
          /\ viewport = [from |-> from, to |-> Len(doc)]
          /\ visibleRanges = <<[from |-> from, to |-> Len(doc)]>>
    /\ settings \in {SettingsOf(<<"a", "b">>, DefaultProfile),
                     SettingsOf(<<"a", "b">>, CaseSensitiveProfile)}
    /\ searchString \in FindSearches
    /\ isActive = FALSE
    /\ isDeactivating = FALSE
    /\ matches = <<>>
    /\ matchedPrefix = ""
    /\ prefixShiftHeld = FALSE
    /\ lastShiftKey = FALSE
    /\ calls = <<>>
    /\ completeCount = 0
    /\ lastOp = NoOp
    /\ genIn = NoGenIn
    /\ genOut = NoGenOut
    /\ plugin = NoPlugin
    /\ mergeIn = NoMergeIn
    /\ widget = NoWidget
    /\ editor = NoEditor

\* matches receives the result of the finder over the host's slice.
FindCall ==
    /\ lastOp.op = "none"
    /\ matches' = findLiteralMatches(searchString, getVisibleLinesCM6.content,
                                     getVisibleLinesCM6.index)
    /\ lastOp' = [NoOp EXCEPT !.op = "findLiteralMatches"]
    /\ UNCHANGED <<hostVars, plugin, genVars, widget, searchString, isActive, isDeactivating,
                   matchedPrefix, prefixShiftHeld, lastShiftKey, calls, completeCount>>

NextFind == FindCall

SpecFind == InitFind /\ [][NextFind]_vars

(***************************************************************************)
(* The phonetic finder checked alone: doc holds the text (code points),    *)
(* viewport.from the base offset, searchString the query; one action       *)
(* applies findPyjjMatchesInContent.                                       *)
(***************************************************************************)
\* Characters of the queries: two letters, a capital and a non-letter.
PyjjSearchChars == {"n", "i", "N", "."}
PyjjSearches == UNION {[1..n -> PyjjSearchChars] : n \in 0..MaxSearchLen + 1}
PyjjTexts == UNION {[1..n -> PyjjTextChars] : n \in 0..DocLen}

InitPyjj ==
    /\ doc \in PyjjTexts
    /\ viewport = [from |-> 1, to |-> 1 + Len(doc)]
    /\ visibleRanges = <<[from |-> 1, to |-> 1 + Len(doc)]>>
    /\ settings = SettingsOf(<<"a", "b">>, DefaultProfile)
    /\ searchString \in PyjjSearches
    /\ isActive = FALSE
    /\ isDeactivating = FALSE
    /\ matches = <<>>
    /\ matchedPrefix = ""
    /\ prefixShiftHeld = FALSE
    /\ lastShiftKey = FALSE
    /\ calls = <<>>
    /\ completeCount = 0
    /\ lastOp = NoOp
    /\ genIn = NoGenIn
    /\ genOut = NoGenOut
    /\ plugin = NoPlugin
    /\ mergeIn = NoMergeIn
    /\ widget = NoWidget
    /\ editor = NoEditor

PyjjCall ==
    /\ lastOp.op = "none"
    /\ matches' = findPyjjMatchesInContent(searchString, doc, viewport.from)
    /\ lastOp' = [NoOp EXCEPT !.op = "findPyjjMatchesInContent"]
    /\ UNCHANGED <<hostVars, plugin, genVars, widget, searchString, isActive, isDeactivating,
                   matchedPrefix, prefixShiftHeld, lastShiftKey, calls, completeCount>>

NextPyjj == PyjjCall

SpecPyjj == InitPyjj /\ [][NextPyjj]_vars

(***************************************************************************)
(* The plugin checked alone: command requests, and the events delivered to *)
(* the handlers that are registered (an active controller's, the link-hint *)
(* mode's, the legacy flash mode's).  What a request finds in the          *)
(* workspace is drawn from Environments.                                   *)
(***************************************************************************)
ActionTypes == {"link", "regexp", "flash"}

Environments ==
    [activeView              : BOOLEAN,
     mode                    : {"source", "preview"},
     flashWidget             : BOOLEAN,
     contentContainer        : BOOLEAN,
     hints                   : {"none", "one", "singles", "pairs"},
     jumpToLinkIfOneLinkOnly : BOOLEAN]

InitPlugin ==
    /\ doc = [i \in 1..DocLen |-> "x"]
    /\ viewport = [from |-> 0, to |-> DocLen]
    /\ visibleRanges = <<[from |-> 0, to |-> DocLen]>>
    /\ settings \in {SettingsOf(<<"a", "b">>, DefaultProfile),
                     SettingsOf(<<"a", "b">>, TwoCharProfile)}
    /\ CtlInit
    /\ genIn = NoGenIn
    /\ genOut = NoGenOut
    /\ plugin = NoPlugin
    /\ mergeIn = NoMergeIn
    /\ widget = NoWidget
    /\ editor = NoEditor

ActiveControllers(p) == {i \in 1..Len(p.controllers) : p.controllers[i].isActive}

PluginBecomes(p, op) ==
    /\ plugin' = p
    /\ lastOp' = [NoOp EXCEPT !.op = op, !.wasActive = (ActiveControllers(plugin) # {})]
    /\ UNCHANGED <<hostVars, genVars, widget, ctlVars, calls, completeCount>>

\* One of the three commands.
ActionRequest ==
    \E type \in ActionTypes, env \in Environments :
        /\ Len(action(plugin, type, env).controllers) <= MaxControllers
        /\ PluginBecomes(action(plugin, type, env), "action")

\* A keydown event at an active controller.  Escape and Tab deactivate it; a
\* modifier key does not; whether a printable key or Backspace ends in a
\* jump (and so in deactivate()) depends on the document, and both happen.
ControllerKeyDown ==
    \E i \in ActiveControllers(plugin), deactivates \in BOOLEAN :
        PluginBecomes(IF deactivates THEN controllerDeactivate(plugin, i) ELSE plugin,
                      "controllerKey")

\* The click handler of an active controller.
ControllerClick ==
    \E i \in ActiveControllers(plugin) :
        PluginBecomes(controllerDeactivate(plugin, i), "controllerClick")

LinkKeyDown ==
    \E kind \in {"Escape", "modifier", "prefix", "other"} :
        /\ plugin.keyDownHandler # "none"
        /\ PluginBecomes(linkKeyDown(plugin, kind), "linkKey")

\* clickHandler of handleActions.
LinkClick ==
    /\ plugin.keyDownHandler # "none"
    /\ PluginBecomes(removePopovers(plugin), "linkClick")

LegacyKeyDown ==
    \E kind \in {"Escape", "char", "named"}, env \in Environments :
        /\ plugin.legacyFlashHandler
        /\ PluginBecomes(grabKey(plugin, kind, env), "legacyKey")

NextPlugin ==
    \/ ActionRequest
    \/ ControllerKeyDown
    \/ ControllerClick
    \/ LinkKeyDown
    \/ LinkClick
    \/ LegacyKeyDown

SpecPlugin == InitPlugin /\ [][NextPlugin]_vars

(***************************************************************************)
(* The controller with its public key entry point: handleKeyForTest passes *)
(* a key to handleKeyDown whether or not the controller is active (the     *)
(* registered handler only exists while it is active).                     *)
(***************************************************************************)
HandleKeyForTest ==
    \E key \in PrintableKeys \cup SpecialKeys \cup {"Shift"}, shiftKey \in BOOLEAN :
        /\ ~isActive
        /\ Delivered(handleKeyDown(Ctl, key, shiftKey), "handleKeyForTest")

NextTestEntry ==
    \/ Next
    \/ HandleKeyForTest

\* The short documents only.
InitTestEntry == Init /\ Len(doc) = DocLen

SpecTestEntry == InitTestEntry /\ [][NextTestEntry]_vars

\* The same on the longer documents, where two-letter labels occur.
InitTestEntryLong == Init /\ Len(doc) = DocLen + 1

SpecTestEntryLong == InitTestEntryLong /\ [][NextTestEntry]_vars

(***************************************************************************)
(* The match detector checked alone: a document, a host (slice and visible *)
(* ranges), the settings and a search string are drawn from bounded sets   *)
(* and one action applies findMatches.                                     *)
(***************************************************************************)
\* A host whose slice is empty.
EmptyHost(n) ==
    [viewport |-> [from |-> 0, to |-> 0],
     visibleRanges |-> <<[from |-> 0, to |-> n]>>]

DetectSearches == UNION {[1..n -> DocChars \cup {"A"}] : n \in 0..MaxSearchLen}

InitDetect ==
    /\ \/ HostInit
       \/ /\ doc \in ShortDocs
          /\ viewport = EmptyHost(DocLen).viewport
          /\ visibleRanges = EmptyHost(DocLen).visibleRanges
          /\ settings = SettingsOf(<<"a", "b">>, DefaultProfile)
    /\ searchString \in DetectSearches
    /\ isActive = FALSE
    /\ isDeactivating = FALSE
    /\ matches = <<>>
    /\ matchedPrefix = ""
    /\ prefixShiftHeld = FALSE
    /\ lastShiftKey = FALSE
    /\ calls = <<>>
    /\ completeCount = 0
    /\ lastOp = NoOp
    /\ genIn = NoGenIn
    /\ genOut = NoGenOut
    /\ plugin = NoPlugin
    /\ mergeIn = NoMergeIn
    /\ widget = NoWidget
    /\ editor = NoEditor

\* matches receives the result of the detector.
DetectCall ==
    /\ lastOp.op = "none"
    /\ matches' = findMatches(searchString)
    /\ lastOp' = [NoOp EXCEPT !.op = "findMatches"]
    /\ UNCHANGED <<hostVars, plugin, genVars, widget, searchString, isActive, isDeactivating,
                   matchedPrefix, prefixShiftHeld, lastShiftKey, calls, completeCount>>

NextDetect == DetectCall

SpecDetect == InitDetect /\ [][NextDetect]_vars

(***************************************************************************)
(* The merge of literal and phonetic matches checked alone.  Two lists of  *)
(* raw matches are drawn for mergeMatches; a text, a query and the input   *)
(* mode are drawn for getRawMatches.                                       *)
(***************************************************************************)
\* Length of a drawn list of raw matches.
MaxListLen == 2

\* Raw matches at two offsets with two lengths; linkText tells the list.
RawMatchesOf(list) ==
    [index : 0..1, matchLength : 1..2, linkText : {<<list>>}, letter : {<<>>}]
RawLists(list) == UNION {[1..n -> RawMatchesOf(list)] : n \in 0..MaxListLen}

\* Texts of a Han character and the two letters of its code; queries of
\* these letters.
MergeTexts == UNION {[1..n -> {HanNi, "n", "i"}] : n \in 0..DocLen}
MergeSearches == UNION {[1..n -> {"n", "i"}] : n \in 1..MaxSearchLen}

InitMerge ==
    /\ \/ /\ mergeIn \in [literal : RawLists("l"), pyjj : RawLists("p")]
          /\ doc = <<>>
          /\ searchString = <<>>
          /\ settings = SettingsOf(<<"a", "b">>, DefaultProfile)
       \/ /\ mergeIn = NoMergeIn
          /\ doc \in MergeTexts
          /\ searchString \in MergeSearches
          /\ \E mode \in {"literal", "zh-pyjj"} :
                settings = [SettingsOf(<<"a", "b">>, DefaultProfile)
                               EXCEPT !.flashInputMode = mode]
    /\ viewport = [from |-> 0, to |-> Len(doc)]
    /\ visibleRanges = <<[from |-> 0, to |-> Len(doc)]>>
    /\ isActive = FALSE
    /\ isDeactivating = FALSE
    /\ matches = <<>>
    /\ matchedPrefix = ""
    /\ prefixShiftHeld = FALSE
    /\ lastShiftKey = FALSE
    /\ calls = <<>>
    /\ completeCount = 0
    /\ lastOp = NoOp
    /\ genIn = NoGenIn
    /\ genOut = NoGenOut
    /\ plugin = NoPlugin
    /\ widget = NoWidget
    /\ editor = NoEditor

\* mergeMatches applied to the drawn lists.
MergeCall ==
    /\ lastOp.op = "none"
    /\ searchString = <<>>
    /\ matches' = mergeMatches(mergeIn.literal, mergeIn.pyjj)
    /\ lastOp' = [NoOp EXCEPT !.op = "mergeMatches"]
    /\ UNCHANGED <<hostVars, plugin, genVars, widget, searchString, isActive, isDeactivating,
                   matchedPrefix, prefixShiftHeld, lastShiftKey, calls, completeCount>>

\* getRawMatches applied to the drawn text and query.
RawMatchesCall ==
    /\ lastOp.op = "none"
    /\ searchString # <<>>
    /\ matches' = getRawMatches(searchString, doc, 0)
    /\ lastOp' = [NoOp EXCEPT !.op = "getRawMatches"]
    /\ UNCHANGED <<hostVars, plugin, genVars, widget, searchString, isActive, isDeactivating,
                   matchedPrefix, prefixShiftHeld, lastShiftKey, calls, completeCount>>

NextMerge ==
    \/ MergeCall
    \/ RawMatchesCall

SpecMerge == InitMerge /\ [][NextMerge]_vars

(***************************************************************************)
(* The word-boundary scans checked alone: a document longer than the       *)
(* buffer of the scans, made of word characters with at most one other     *)
(* character, and a one-character match anywhere in it; one action applies *)
(* calculateJumpPosition under the policies word-start and word-end.       *)
(***************************************************************************)
\* Characters of the document beyond the buffer of the scans.
WordSlack == 2

WordDocLen == bufferSize + WordSlack

\* The document of word characters with "-" at position gap (none for 0).
WordDoc(gap) == [i \in 1..WordDocLen |-> IF i = gap THEN "-" ELSE "x"]

InitWord ==
    /\ \E gap \in 0..WordDocLen : doc = WordDoc(gap)
    /\ viewport = [from |-> 0, to |-> WordDocLen]
    /\ visibleRanges = <<[from |-> 0, to |-> WordDocLen]>>
    /\ settings = SettingsOf(<<"a", "b">>, TwoCharProfile)
    /\ searchString = <<>>
    /\ \E index \in 0..(WordDocLen - 1) :
          matches = <<[index |-> index, matchLength |-> 1,
                       linkText |-> <<doc[index + 1]>>, letter |-> <<"a">>]>>
    /\ isActive = FALSE
    /\ isDeactivating = FALSE
    /\ matchedPrefix = ""
    /\ prefixShiftHeld = FALSE
    /\ lastShiftKey = FALSE
    /\ calls = <<>>
    /\ completeCount = 0
    /\ lastOp = NoOp
    /\ genIn = NoGenIn
    /\ genOut = NoGenOut
    /\ plugin = NoPlugin
    /\ mergeIn = NoMergeIn
    /\ widget = NoWidget
    /\ editor = NoEditor

\* The first half of jumpToMatch: the position is calculated and passed to
\* the jump callback.
WordCall ==
    /\ lastOp.op = "none"
    /\ \E useCapital \in BOOLEAN :
          calls' = <<Call(Ctl, "onJump", calculateJumpPosition(matches[1], useCapital),
                          matches[1], useCapital)>>
    /\ lastOp' = [NoOp EXCEPT !.op = "calculateJumpPosition"]
    /\ UNCHANGED <<hostVars, plugin, genVars, widget, ctlVars, completeCount>>

NextWord == WordCall

SpecWord == InitWord /\ [][NextWord]_vars

(***************************************************************************)
(* The cursor jumps of the plugin checked alone: jumps made through the    *)
(* jump callback, the timers they schedule, and the host moving the cursor *)
(* while a timer is pending.                                               *)
(***************************************************************************)
InitJump ==
    /\ doc = [i \in 1..DocLen |-> "x"]
    /\ viewport = [from |-> 0, to |-> DocLen]
    /\ visibleRanges = <<[from |-> 0, to |-> DocLen]>>
    /\ settings = SettingsOf(<<"a", "b">>, DefaultProfile)
    /\ CtlInit
    /\ genIn = NoGenIn
    /\ genOut = NoGenOut
    /\ plugin = NoPlugin
    /\ mergeIn = NoMergeIn
    /\ widget = NoWidget
    /\ \E offset \in Offsets : editor = [NoEditor EXCEPT !.anchor = offset, !.head = offset]

EditorBecomes(e, op) ==
    /\ editor' = e
    /\ lastOp' = [NoOp EXCEPT !.op = op]
    /\ UNCHANGED <<settings, doc, viewport, visibleRanges, plugin, genVars, widget,
                   ctlVars, calls, completeCount>>

\* onJump of handleFlashJump: a flash session that was started with
\* cursorBeforeJump ends with a jump to index.
Jump ==
    \E index \in Offsets, cursorBeforeJump \in CursorStates :
        LET useSelection == /\ cursorBeforeJump.vimMode \in {"visual", "visual block"}
                            /\ cursorBeforeJump.anchor # -1
            jumped == jumpToPosition(editor, index, cursorBeforeJump)
        IN /\ editor.jumps < MaxJumps
           /\ EditorBecomes([jumped EXCEPT !.lastJump = [index        |-> index,
                                                         useSelection |-> useSelection,
                                                         pending      |-> Len(editor.timers)],
                                           !.jumps = @ + 1,
                                           !.moved = FALSE],
                            "jumpToPosition")

\* The oldest pending timer fires (equal delays fire in scheduling order).
TimerFires ==
    /\ editor.timers # <<>>
    /\ EditorBecomes(timerCallback([editor EXCEPT !.timers = Tail(@)], Head(editor.timers)),
                     "timer")

\* The host (Live Preview processing, the user) moves the cursor while a
\* timer is pending.
HostMovesCursor ==
    \E offset \in Offsets :
        /\ editor.timers # <<>>
        /\ offset # editor.head
        /\ EditorBecomes([editor EXCEPT !.anchor = offset, !.head = offset,
                                        !.dispatches = 0, !.moved = TRUE],
                         "hostMove")

NextJump ==
    \/ Jump
    \/ TimerFires
    \/ HostMovesCursor

SpecJump == InitJump /\ [][NextJump]_vars

(***************************************************************************)
(* Properties.                                                             *)
(***************************************************************************)
CallsOf(name) == SelectSeq(calls, LAMBDA call : call.cb = name)

\* The search string the last keystroke left: the controller's when it is
\* still active, otherwise the one it had when its first callback ran.
SearchAfterKey ==
    IF isActive \/ calls = <<>> THEN searchString ELSE calls[1].searchString

\* A jump made without a label keystroke: the live match set held exactly
\* one match and no prefix was pending (a label is only ever typed against
\* two or more live matches, or against a pending prefix).
IsAutoJump(call) ==
    call.cb = "onJump" /\ call.matchedPrefix = "" /\ Len(call.matches) = 1

\* C1: after a printable keystroke on an active controller, if the search
\* string has reached the minimum length and occurs exactly once inside the
\* visible ranges, that keystroke has fired the jump callback for that
\* occurrence, with the target offset computed from it.
C1_AutoJumpOnSingleOccurrence ==
    (/\ lastOp.op = "printable"
     /\ lastOp.wasActive
     /\ Len(SearchAfterKey) >= settings.flashCharacterCount
     /\ Len(VisibleMatches(SearchAfterKey)) = 1)
    => \E i \in 1..Len(calls) :
          /\ calls[i].cb = "onJump"
          /\ calls[i].match.index = VisibleMatches(SearchAfterKey)[1].index
          /\ calls[i].index = calculateJumpPosition(calls[i].match, calls[i].useCapital)

\* A key is a label key when it is the label of a live match or the first
\* character of the two-character label of one.
IsLabelKey(key) ==
    \E i \in 1..Len(matches) :
        \/ matches[i].letter = <<key>>
        \/ Len(matches[i].letter) = 2 /\ matches[i].letter[1] = key

\* A key continues the search when the search string extended by it occurs
\* in the host's slice.
ContinuesSearch(key) ==
    getRawMatches(Append(searchString, key),
                  getVisibleLinesCM6.content, getVisibleLinesCM6.index) # <<>>

\* C2: in plain searching with live matches, no key is both a label key and
\* a continuation of the search (the search string extended by the key still
\* has a match).
C2_LabelKeyNeverContinuesSearch ==
    (isActive /\ matchedPrefix = "" /\ matches # <<>>)
    => \A key \in PrintableKeys :
          ~(IsLabelKey(key) /\ ContinuesSearch(key))

\* Live matches with a two-character label, while some key continues the search.
C2_Witness ==
    /\ isActive /\ matchedPrefix = "" /\ matches # <<>>
    /\ \E i \in 1..Len(matches) : Len(matches[i].letter) = 2
    /\ \E key \in PrintableKeys : ContinuesSearch(key)

\* C3: of two deactivate() calls in direct succession on an active
\* controller, the first fires the completion callback exactly once and the
\* second changes no state and fires no callback.
C3_SecondDeactivateIsNoOp ==
    [][(lastOp'.op = "deactivate")
       => /\ lastOp'.wasActive => (Len(SelectSeq(calls', LAMBDA call : call.cb = "onComplete")) = 1
                                   /\ completeCount' = 1)
          /\ lastOp'.afterDeactivate
                => (/\ ctlVars' = ctlVars
                    /\ calls' = <<>>
                    /\ completeCount' = completeCount)]_vars

\* A second deactivate() right after one that deactivated the controller.
C3_Witness ==
    /\ lastOp.op = "deactivate" /\ lastOp.afterDeactivate /\ ~lastOp.wasActive
    /\ completeCount = 1 /\ calls = <<>>

\* C4: in each activation lifecycle the completion callback runs exactly
\* once, however the lifecycle ends, and when it runs the controller is
\* already inactive with search string, matches and prefix cleared.
C4_CompleteExactlyOnce ==
    [][LET completions == SelectSeq(calls', LAMBDA call : call.cb = "onComplete")
       IN /\ (isActive /\ ~isActive') => (Len(completions) = 1 /\ completeCount' = 1)
          /\ (~isActive /\ ~isActive') => (completions = <<>> /\ completeCount' = completeCount)
          /\ isActive' => (completions = <<>> /\ completeCount' = 0)
          /\ \A i \in 1..Len(completions) :
                /\ ~completions[i].isActive
                /\ completions[i].searchString = <<>>
                /\ completions[i].matches = <<>>
                /\ completions[i].matchedPrefix = ""]_vars

\* A lifecycle ended by a jump: the jump callback, then the completion.
C4_Witness ==
    /\ ~isActive /\ lastOp.op = "printable" /\ completeCount = 1
    /\ Len(CallsOf("onJump")) = 1 /\ Len(CallsOf("onComplete")) = 1

\* C5: an Escape or Tab keystroke in any active sub-state deactivates the
\* controller within the keystroke: it is inactive, search string, matches
\* and prefix are empty, and the completion callback has fired.
C5_EscapeAndTabDeactivate ==
    (lastOp.op \in {"Escape", "Tab"} /\ lastOp.wasActive)
    => /\ ~isActive
       /\ searchString = <<>>
       /\ matches = <<>>
       /\ matchedPrefix = ""
       /\ Len(CallsOf("onComplete")) = 1

\* Escape typed while a prefix was pending.
C5_Witness ==
    lastOp.op = "Escape" /\ lastOp.prefixBefore # "" /\ ~isActive

PlainKeystroke(ms, key, shiftKey) ==
    PlainLabelMode([Ctl EXCEPT !.lastShiftKey = shiftKey,
                               !.matchedPrefix = "",
                               !.prefixShiftHeld = FALSE,
                               !.matches = ms],
                   key, shiftKey)

StepInto(c) ==
    /\ searchString' = c.searchString
    /\ isActive' = c.isActive
    /\ matches' = c.matches
    /\ matchedPrefix' = c.matchedPrefix
    /\ prefixShiftHeld' = c.prefixShiftHeld
    /\ calls' = c.calls

\* C7 as stated: in prefix-pending, a printable key that completes no live
\* two-character label clears the prefix and its shift flag and is then handled
\* exactly as a plain-searching keystroke: as a search extension and, failing
\* that, as a label or prefix attempt (against the matches of the pending
\* prefix or against all matches of the search string).
C7_FallbackIsPlainKeystroke ==
    [][\A key \in PrintableKeys, shiftKey \in BOOLEAN :
          (/\ matchedPrefix # ""
           /\ FindByLetter(matches, <<matchedPrefix, ToLowerCase(normalizeKeypress(key))>>) = NoMatch
           /\ HandleKey(key, shiftKey))
          => \/ StepInto(PlainKeystroke(matches, key, shiftKey))
             \/ StepInto(PlainKeystroke(findMatches(searchString), key, shiftKey))]_vars

\* C7 amended: in prefix-pending, a printable key that completes no live
\* two-character label clears the prefix and its shift flag, is appended to the
\* search string, and the matches are recomputed for the longer string: one
\* labelled match is jumped to (with this keystroke's shift), otherwise the
\* controller stays active in plain searching with those matches (possibly
\* none).  The key is not tried as a label or as a prefix.
C7_FallbackAppendsToSearch ==
    [][\A key \in PrintableKeys, shiftKey \in BOOLEAN :
          (/\ matchedPrefix # ""
           /\ FindByLetter(matches, <<matchedPrefix, ToLowerCase(normalizeKeypress(key))>>) = NoMatch
           /\ HandleKey(key, shiftKey))
          => LET extended == Append(searchString, key)
                 found    == findMatches(extended)
             IN /\ matchedPrefix' = ""
                /\ prefixShiftHeld' = FALSE
                /\ IF Len(found) = 1
                   THEN /\ ~isActive'
                        /\ calls'[1].cb = "onJump"
                        /\ calls'[1].match = found[1]
                        /\ calls'[1].useCapital = shiftKey
                        /\ calls'[1].searchString = extended
                   ELSE /\ isActive'
                        /\ searchString' = extended
                        /\ matches' = found
                        /\ Len(calls') = 1
                        /\ calls'[1].cb = "onDecorationUpdate"]_vars

\* A key typed in prefix-pending that completed no label: the controller is
\* back in plain searching with a longer search string and no match.
C7_Witness ==
    /\ lastOp.op = "printable" /\ lastOp.prefixBefore # ""
    /\ isActive /\ matchedPrefix = "" /\ matches = <<>>
    /\ Len(searchString) >= 2

\* C8: a jump made without a label keystroke happens only when the search
\* string of that moment has exactly one occurrence in the visible ranges.
C8_AutoJumpOnlyOnSingleOccurrence ==
    \A i \in 1..Len(calls) :
        IsAutoJump(calls[i]) => Len(VisibleMatches(calls[i].searchString)) = 1

IsDeduplicated(alphabet) ==
    \A i, j \in 1..Len(alphabet) : alphabet[i] = alphabet[j] => i = j

\* C9: for a deduplicated alphabet A, a count n with 0 <= n <= |A| and an
\* empty exclusion set, the generator returns the first n characters of A
\* as n single-character labels.
C9_SinglesWithinAlphabet ==
    (/\ genOut.called
     /\ genIn.excluded = {}
     /\ IsDeduplicated(genIn.alphabet)
     /\ genIn.count <= Len(genIn.alphabet))
    => genOut.labels = [i \in 1..genIn.count |-> <<genIn.alphabet[i]>>]

\* Two labels asked of a three-letter alphabet.
C9_Witness ==
    /\ genOut.called /\ genIn.excluded = {}
    /\ IsDeduplicated(genIn.alphabet) /\ Len(genIn.alphabet) = 3 /\ genIn.count = 2
    /\ Len(genOut.labels) = 2

\* C11: for every alphabet, count and exclusion set, no label returned by
\* the generator is a character of the exclusion set and no two-character
\* label ends in one.
C11_ExcludedNeverLabelOrSuffix ==
    genOut.called
    => \A i \in 1..Len(genOut.labels) :
          genOut.labels[i][Len(genOut.labels[i])] \notin genIn.excluded

\* Two-character labels returned although a letter of the alphabet is excluded.
C11_Witness ==
    /\ genOut.called
    /\ \E c \in genIn.excluded : c \in Range(genIn.alphabet)
    /\ \E i \in 1..Len(genOut.labels) : Len(genOut.labels[i]) = 2

OccursAt(pos) ==
    LET text == getVisibleLinesCM6.content
    IN /\ pos \in 0..(Len(text) - Len(searchString))
       /\ \A i \in 1..Len(searchString) :
             IF settings.flashCaseSensitive
             THEN text[pos + i] = searchString[i]
             ELSE ToLowerCase(text[pos + i]) = ToLowerCase(searchString[i])

\* C13: for a non-empty search string the literal finder returns the
\* non-overlapping occurrences found by a left-to-right scan: every match is
\* an occurrence, with index = base offset + position, matchLength = length
\* of the search string and linkText the text there; matches ascend without
\* overlap; and every occurrence is returned or overlaps a returned match
\* that starts before it.
C13_LiteralFinderLeftToRight ==
    lastOp.op = "findLiteralMatches"
    => LET text == getVisibleLinesCM6.content
           base == getVisibleLinesCM6.index
           n    == Len(searchString)
       IN /\ \A i \in 1..Len(matches) :
                /\ OccursAt(matches[i].index - base)
                /\ matches[i].matchLength = n
                /\ matches[i].linkText
                     = SubSeq(text, matches[i].index - base + 1, matches[i].index - base + n)
          /\ \A i \in 1..Len(matches) - 1 :
                matches[i].index + n <= matches[i + 1].index
          /\ \A pos \in 0..Len(text) :
                OccursAt(pos)
                => \E i \in 1..Len(matches) :
                      /\ matches[i].index - base <= pos
                      /\ pos < matches[i].index - base + n

\* Overlapping occurrences at a non-zero base offset: an occurrence is left
\* out because it overlaps the match before it.
C13_Witness ==
    /\ lastOp.op = "findLiteralMatches"
    /\ getVisibleLinesCM6.index = 1
    /\ Len(matches) >= 1
    /\ \E pos \in 0..Len(doc) :
          /\ OccursAt(pos)
          /\ \A i \in 1..Len(matches) : matches[i].index # pos + 1

LettersOnly(search) ==
    search # <<>> /\ \A i \in 1..Len(search) : IsAsciiLetter(search[i])

\* Token j (from 1) of a query: its lower-cased letters 2j-1 and 2j, or the
\* last letter alone.
QueryToken(search, j) ==
    LET letters == [i \in (2 * j - 1)..Min(2 * j, Len(search)) |-> ToLowerCase(search[i])]
    IN [type  |-> IF 2 * j <= Len(search) THEN "pair" ELSE "single",
        value |-> [i \in 1..(Min(2 * j, Len(search)) - 2 * j + 2) |-> letters[2 * j - 2 + i]]]

QueryTokenCount(search) == (Len(search) + 1) \div 2

\* UTF-16 offset of the character at position i (from 0) of the text.
RECURSIVE UnitOffset(_)
UnitOffset(i) == IF i = 0 THEN 0 ELSE UnitOffset(i - 1) + UnitsOf(doc[i])

\* C14: for a letters-only query of k tokens the phonetic finder returns a
\* match starting at character i iff character i+j matches token j for every
\* j < k; the match spans exactly those k characters, with index = base
\* offset + offset of character i, and nothing else is returned.
C14_PhoneticRunMatchesTokenRun ==
    (lastOp.op = "findPyjjMatchesInContent" /\ LettersOnly(searchString))
    => LET k    == QueryTokenCount(searchString)
           base == viewport.from
           runAt(i) == /\ i + k <= Len(doc)
                       /\ \A j \in 1..k :
                             matchesToken(doc[i + j], QueryToken(searchString, j))
           matchOf(i) == [index       |-> base + UnitOffset(i),
                          matchLength |-> UnitOffset(i + k) - UnitOffset(i),
                          linkText    |-> SubSeq(doc, i + 1, i + k),
                          letter      |-> <<>>]
       IN /\ \A i \in 0..Len(doc) :
                runAt(i) <=> \E m \in 1..Len(matches) : matches[m].index = base + UnitOffset(i)
          /\ \A m \in 1..Len(matches) :
                \E i \in 0..Len(doc) : runAt(i) /\ matches[m] = matchOf(i)
          /\ \A m \in 1..Len(matches) - 1 : matches[m].index < matches[m + 1].index

\* A query of two tokens (a pair and a trailing letter) matched after a
\* two-unit character: the index is not the character position.
C14_Witness ==
    /\ lastOp.op = "findPyjjMatchesInContent"
    /\ Len(searchString) = 3 /\ LettersOnly(searchString)
    /\ doc # <<>> /\ doc[1] = Emoji
    /\ Len(matches) = 1 /\ matches[1].index = viewport.from + 2
    /\ matches[1].matchLength = 2

\* C15: a character matches a two-letter token iff the token is one of its
\* codes, and a single trailing letter iff the letter begins one of its
\* codes; a character without codes matches nothing.  Seen through queries
\* of one token: the matches are exactly the characters that qualify.
C15_TokenMatchesByCode ==
    (/\ lastOp.op = "findPyjjMatchesInContent"
     /\ LettersOnly(searchString)
     /\ Len(searchString) <= 2)
    => LET letters == [i \in 1..Len(searchString) |-> ToLowerCase(searchString[i])]
           qualifies(char) ==
               IF Len(letters) = 2
               THEN letters \in getPyjjCodesForChar(char)
               ELSE \E code \in getPyjjCodesForChar(char) : code[1] = letters[1]
       IN /\ \A i \in 1..Len(doc) :
                qualifies(doc[i])
                <=> \E m \in 1..Len(matches) :
                       /\ matches[m].index = viewport.from + UnitOffset(i - 1)
                       /\ matches[m].linkText = <<doc[i]>>
          /\ Len(matches) = Cardinality({i \in 1..Len(doc) : qualifies(doc[i])})

\* A single letter matched through the second code of a character, next to
\* a character without codes.
C15_Witness ==
    /\ lastOp.op = "findPyjjMatchesInContent"
    /\ searchString = <<"i">>
    /\ Len(doc) >= 2 /\ doc[1] = "n" /\ doc[2] = HanSi
    /\ Len(matches) >= 1 /\ matches[1].linkText = <<HanSi>>

\* C16: for an empty query or one with a non-letter character the phonetic
\* finder returns nothing, whatever the text.
C16_NonLetterQueryFindsNothing ==
    (lastOp.op = "findPyjjMatchesInContent" /\ ~LettersOnly(searchString))
    => matches = <<>>

\* A query of a letter and a dot over a text whose first character the
\* letter alone would match.
C16_Witness ==
    /\ lastOp.op = "findPyjjMatchesInContent"
    /\ searchString = <<"n", ".">>
    /\ doc # <<>> /\ doc[1] = HanNi
    /\ matches = <<>>

(***************************************************************************)
(* The decoration-update callback after a keystroke.                       *)
(***************************************************************************)
KeyOps == {"Escape", "Tab", "Backspace", "printable", "ignored"}

\* The invocations of onDecorationUpdate among the callbacks of one operation.
DecorationUpdates(log) == SelectSeq(log, LAMBDA call : call.cb = "onDecorationUpdate")

\* C17: a keystroke delivered to the key handler that changes the search
\* string, the live matches or the active prefix invokes onDecorationUpdate
\* before it returns, and the last invocation is passed the matches, the
\* length of the search string and the prefix that the controller holds
\* after the keystroke.
C17_KeystrokeNotifiesFinalState ==
    [][(/\ lastOp'.op \in KeyOps
        /\ \/ searchString' # searchString
           \/ matches' # matches
           \/ matchedPrefix' # matchedPrefix)
       => LET updates == DecorationUpdates(calls')
          IN /\ updates # <<>>
             /\ LET last == updates[Len(updates)]
                IN /\ last.matches = matches'
                   /\ Len(last.searchString) = Len(searchString')
                   /\ last.matchedPrefix = matchedPrefix']_vars

\* A keystroke has entered a prefix: the callback was passed the filtered
\* matches and the prefix.
C17_Witness ==
    /\ lastOp.op = "printable"
    /\ isActive
    /\ matchedPrefix # ""
    /\ lastOp.prefixBefore = ""
    /\ DecorationUpdates(calls) # <<>>
    /\ DecorationUpdates(calls)[1].matches = matches
    /\ DecorationUpdates(calls)[1].matchedPrefix = matchedPrefix

(***************************************************************************)
(* The plugin's mode flag and its controllers.                             *)
(***************************************************************************)
\* C18: at most one controller is active at any time, and a command
\* requested while isLinkHintActive is true returns without constructing or
\* activating a controller (it changes nothing of the plugin).
C18_AtMostOneActiveController ==
    /\ [](Cardinality(ActiveControllers(plugin)) <= 1)
    /\ [][(lastOp'.op = "action" /\ plugin.isLinkHintActive) => plugin' = plugin]_vars

\* A command was requested while a controller was active, and returned:
\* that controller is still the only one and still active.
C18_Witness ==
    /\ lastOp.op = "action"
    /\ lastOp.wasActive
    /\ plugin.flashController # 0
    /\ Len(plugin.controllers) = 2
    /\ ActiveControllers(plugin) = {2}

(***************************************************************************)
(* Plain searching with live matches: extension before labels.             *)
(***************************************************************************)
\* The controller is in plain searching at or above the minimum length with
\* live matches.
PlainSearchingWithMatches ==
    /\ isActive
    /\ matchedPrefix = ""
    /\ Len(searchString) >= settings.flashCharacterCount
    /\ matches # <<>>

JumpCalls(log) == SelectSeq(log, LAMBDA call : call.cb = "onJump")

\* C19: in plain searching at or above the minimum length with live matches,
\* a printable key that extends the search string to one that still has a
\* match is appended to the search string and the live matches become the
\* matches of the longer string; no prefix is entered; a jump is made only
\* when exactly one match remains, to that match and with the longer string.
C19_ExtensionBeforeLabel ==
    [][\A key \in PrintableKeys, shiftKey \in BOOLEAN :
          (/\ lastOp'.op = "printable"
           /\ PlainSearchingWithMatches
           /\ findMatches(Append(searchString, key)) # <<>>
           /\ HandleKey(key, shiftKey))
          => LET extended == Append(searchString, key)
                 found    == findMatches(extended)
             IN /\ matchedPrefix' = ""
                /\ IF Len(found) = 1
                   THEN /\ ~isActive'
                        /\ Len(JumpCalls(calls')) = 1
                        /\ calls'[1].cb = "onJump"
                        /\ calls'[1].match = found[1]
                        /\ calls'[1].searchString = extended
                        /\ calls'[1].matches = found
                   ELSE /\ isActive'
                        /\ searchString' = extended
                        /\ matches' = found
                        /\ JumpCalls(calls') = <<>>]_vars

\* The search string was extended in plain searching, from a string with
\* several matches to a longer one with several matches.
C19_Witness ==
    /\ lastOp.op = "printable" /\ lastOp.prefixBefore = ""
    /\ isActive /\ matchedPrefix = ""
    /\ Len(searchString) > settings.flashCharacterCount
    /\ Len(matches) >= 2
    /\ Len(findMatches(SubSeq(searchString, 1, Len(searchString) - 1))) >= 2

\* C20: in plain searching at or above the minimum length with live matches,
\* when the search string extended by the key has no match and the
\* normalized, lower-cased key is the one-letter label of a live match, onJump
\* fires once, for that match, with the capital position policy iff shift is
\* held on this keystroke, and the controller is inactive afterwards.
C20_SingleLetterLabelJumps ==
    [][\A key \in PrintableKeys, shiftKey \in BOOLEAN :
          (/\ PlainSearchingWithMatches
           /\ FindByLetter(matches, <<ToLowerCase(normalizeKeypress(key))>>) # NoMatch
           /\ findMatches(Append(searchString, key)) = <<>>
           /\ HandleKey(key, shiftKey))
          => LET labelled == FindByLetter(matches, <<ToLowerCase(normalizeKeypress(key))>>)
             IN /\ ~isActive'
                /\ Len(JumpCalls(calls')) = 1
                /\ calls'[1].cb = "onJump"
                /\ calls'[1].match = labelled
                /\ calls'[1].useCapital = shiftKey
                /\ calls'[1].index = calculateJumpPosition(labelled, shiftKey)]_vars

\* A one-letter label was typed with shift held against several live
\* matches: the jump used the capital policy.
C20_Witness ==
    /\ lastOp.op = "printable" /\ lastOp.prefixBefore = ""
    /\ ~isActive
    /\ calls # <<>>
    /\ calls[1].cb = "onJump"
    /\ Len(calls[1].matches) >= 2
    /\ Len(calls[1].match.letter) = 1
    /\ calls[1].useCapital
    /\ calls[1].index = calculateJumpPosition(calls[1].match, TRUE)
    /\ calculateJumpPosition(calls[1].match, TRUE) # calculateJumpPosition(calls[1].match, FALSE)

(***************************************************************************)
(* Plain searching with live matches: prefix entry and the dead key.       *)
(***************************************************************************)
\* The live matches whose two-letter label starts with the letter.
PrefixMatchesOf(letter) ==
    SelectSeq(matches, LAMBDA m : Len(m.letter) = 2 /\ m.letter[1] = letter)

\* C21: in plain searching with live matches, a key that neither extends the
\* search nor is a one-letter label, but (normalized and lower-cased) is the
\* first letter of a live two-letter label, makes that letter the prefix,
\* stores this keystroke's shift state, keeps exactly the matches whose label
\* starts with it, leaves the search string unchanged and notifies the
\* decoration callback once with the filtered matches and the prefix.
C21_PrefixEntry ==
    [][\A key \in PrintableKeys, shiftKey \in BOOLEAN :
          (/\ lastOp'.op = "printable"
           /\ PlainSearchingWithMatches
           /\ FindByLetter(matches, <<ToLowerCase(normalizeKeypress(key))>>) = NoMatch
           /\ PrefixMatchesOf(ToLowerCase(normalizeKeypress(key))) # <<>>
           /\ findMatches(Append(searchString, key)) = <<>>
           /\ HandleKey(key, shiftKey))
          => LET lowerKey == ToLowerCase(normalizeKeypress(key))
             IN /\ isActive'
                /\ matchedPrefix' = lowerKey
                /\ prefixShiftHeld' = shiftKey
                /\ matches' = PrefixMatchesOf(lowerKey)
                /\ searchString' = searchString
                /\ Len(calls') = 1
                /\ calls'[1].cb = "onDecorationUpdate"
                /\ calls'[1].matches = PrefixMatchesOf(lowerKey)
                /\ calls'[1].matchedPrefix = lowerKey]_vars

\* A prefix was entered with shift held, and it kept fewer matches than the
\* search string has.
C21_Witness ==
    /\ lastOp.op = "printable" /\ lastOp.prefixBefore = ""
    /\ isActive /\ matchedPrefix # "" /\ prefixShiftHeld
    /\ matches # <<>>
    /\ Len(matches) < Len(findMatches(searchString))

\* C22: in plain searching with live matches, a printable key that neither
\* extends the search, nor is a one-letter label, nor starts a two-letter
\* label is still appended to the search string; the live matches become
\* empty, the decoration callback fires once with no matches, nothing is
\* jumped to and the controller stays active.
C22_DeadKeyCommitsEmptySearch ==
    [][\A key \in PrintableKeys, shiftKey \in BOOLEAN :
          (/\ lastOp'.op = "printable"
           /\ PlainSearchingWithMatches
           /\ FindByLetter(matches, <<ToLowerCase(normalizeKeypress(key))>>) = NoMatch
           /\ PrefixMatchesOf(ToLowerCase(normalizeKeypress(key))) = <<>>
           /\ findMatches(Append(searchString, key)) = <<>>
           /\ HandleKey(key, shiftKey))
          => /\ isActive'
             /\ searchString' = Append(searchString, key)
             /\ matches' = <<>>
             /\ matchedPrefix' = ""
             /\ Len(calls') = 1
             /\ calls'[1].cb = "onDecorationUpdate"
             /\ calls'[1].matches = <<>>
             /\ calls'[1].searchString = Append(searchString, key)]_vars

\* A key was appended in plain searching although the shorter search string
\* had several labelled matches and the longer one has none.
C22_Witness ==
    /\ lastOp.op = "printable" /\ lastOp.prefixBefore = ""
    /\ isActive /\ matchedPrefix = "" /\ matches = <<>>
    /\ Len(searchString) > settings.flashCharacterCount
    /\ Len(calls) = 1 /\ calls[1].cb = "onDecorationUpdate"
    /\ Len(findMatches(SubSeq(searchString, 1, Len(searchString) - 1))) >= 2

(***************************************************************************)
(* Backspace.                                                              *)
(***************************************************************************)
\* The matches updateMatches computes for a search string.
MatchesFor(search) ==
    IF Len(search) < settings.flashCharacterCount THEN <<>> ELSE findMatches(search)

C24_ModifierKeyChangesNothing ==
    [][\A key \in MODIFIER_KEYS \ SpecialKeys, shiftKey \in BOOLEAN :
          (isActive /\ HandleKey(key, shiftKey))
          => /\ UNCHANGED <<searchString, matchedPrefix, prefixShiftHeld, lastShiftKey,
                            matches, isActive>>
             /\ calls' = <<>>]_vars

\* C24 amended: a modifier-only keystroke leaves the search string, the
\* prefix, the prefix shift flag, the live matches and isActive unchanged and
\* fires no callback; the last-key shift flag becomes the shift state of
\* this keystroke.
C24_ModifierKeyOnlyRecordsShift ==
    [][\A shiftKey \in BOOLEAN :
          (/\ lastOp'.op = "ignored"
           /\ isActive
           /\ \E key \in MODIFIER_KEYS \ SpecialKeys : HandleKey(key, shiftKey))
          => /\ UNCHANGED <<searchString, matchedPrefix, prefixShiftHeld, matches, isActive>>
             /\ calls' = <<>>
             /\ lastShiftKey' = shiftKey]_vars

\* The state after a modifier key pressed with shift held while a prefix was
\* pending (a modifier key is one of the keys handleKeyDown ignores).
C24_Witness ==
    /\ lastOp.op = "ignored"
    /\ isActive /\ lastShiftKey
    /\ matchedPrefix # "" /\ matches # <<>>
    /\ calls = <<>>

(***************************************************************************)
(* Deactivation and the plugin's clean-up.                                 *)
(***************************************************************************)
\* C25: every chain of deactivate(), onComplete and removePopovers() ends;
\* a controller completes at most once, and exactly once when it becomes
\* inactive, whether deactivate() was called on it or removePopovers() was
\* called while it was active; afterwards no controller is deactivating, the
\* plugin holds no controller reference and isLinkHintActive is false.
C25_DeactivationRunsOnce ==
    /\ [](\A i \in 1..Len(plugin.controllers) :
             /\ ~plugin.controllers[i].isDeactivating
             /\ plugin.controllers[i].completeCount
                    = IF plugin.controllers[i].isActive THEN 0 ELSE 1)
    /\ [][ActiveControllers(plugin') # ActiveControllers(plugin)
              /\ ActiveControllers(plugin') \subseteq ActiveControllers(plugin)
          => /\ plugin'.flashController = 0
             /\ ~plugin'.isLinkHintActive]_vars

\* removePopovers() was called by the link-hint click handler while a
\* controller was active: the controller has completed once.
C25_Witness ==
    /\ lastOp.op = "linkClick"
    /\ lastOp.wasActive
    /\ ActiveControllers(plugin) = {}
    /\ plugin.flashController = 0
    /\ ~plugin.isLinkHintActive
    /\ \E i \in 1..Len(plugin.controllers) : plugin.controllers[i].completeCount = 1

(***************************************************************************)
(* Keys delivered to an inactive controller.                               *)
(***************************************************************************)
\* C26: after a deactivation, a keystroke delivered through the key entry
\* point while the controller is inactive leaves the search string, the
\* matches and the prefix as they are (empty) and fires no decoration, jump
\* or completion callback.
C26_InactiveControllerIgnoresKeys ==
    [][(completeCount = 1 /\ lastOp'.op = "handleKeyForTest")
       => /\ UNCHANGED <<searchString, matches, matchedPrefix>>
          /\ calls' = <<>>]_vars

(***************************************************************************)
(* The minimum search length.                                              *)
(***************************************************************************)
\* C27: while the search string is shorter than flashCharacterCount the
\* live matches are empty, and onJump never fires with a search string
\* shorter than flashCharacterCount.
C27_NothingBelowMinimumLength ==
    /\ (Len(searchString) < settings.flashCharacterCount => matches = <<>>)
    /\ \A i \in 1..Len(calls) :
          calls[i].cb = "onJump"
          => Len(calls[i].searchString) >= settings.flashCharacterCount

\* Backspace has taken the search string below the minimum length: nothing
\* is live although the shorter string occurs in the visible ranges.
C27_Witness ==
    /\ lastOp.op = "Backspace"
    /\ isActive
    /\ searchString # <<>>
    /\ Len(searchString) < settings.flashCharacterCount
    /\ matches = <<>>
    /\ findMatches(searchString) # <<>>

(***************************************************************************)
(* The match detector.                                                     *)
(***************************************************************************)
\* The labels the generator returns for the visible matches of the search
\* string.
LabelsFor(search) ==
    generateHintLabels(settings.letters, Len(VisibleMatches(search)),
                       collectSearchConflictChars(search, getVisibleLinesCM6.content,
                                                  getVisibleLinesCM6.index))

\* C28: for a non-empty search string (the generator is not called for an
\* empty one) the detector returns the first min(k, v) of the v visible
\* matches, where k is the number of labels the generator returns for them,
\* in ascending order of index, the i-th with the i-th label, and every
\* returned match has a non-empty label.
C28_LabelsAssignedInOrder ==
    (lastOp.op = "findMatches" /\ searchString # <<>>)
    => LET visible == VisibleMatches(searchString)
           labels  == LabelsFor(searchString)
       IN /\ Len(matches) = Min(Len(labels), Len(visible))
          /\ \A i \in 1..Len(matches) :
                /\ matches[i].index = visible[i].index
                /\ matches[i].matchLength = visible[i].matchLength
                /\ matches[i].letter = labels[i]
                /\ matches[i].letter # <<>>
          /\ \A i \in 1..Len(matches) - 1 : matches[i].index < matches[i + 1].index

\* Fewer labels than visible matches: some matches were dropped.
C28_Witness ==
    /\ lastOp.op = "findMatches"
    /\ matches # <<>>
    /\ Len(matches) < Len(VisibleMatches(searchString))

\* The offset lies in one of the host's visible ranges [from, to).
InVisibleRange(offset) ==
    \E r \in 1..Len(visibleRanges) :
        visibleRanges[r].from <= offset /\ offset + 1 <= visibleRanges[r].to

\* C29: every match the detector returns starts inside a visible range
\* [from, to); an empty search string or an empty slice gives no match.
C29_OnlyVisibleMatches ==
    lastOp.op = "findMatches"
    => /\ \A i \in 1..Len(matches) : InVisibleRange(matches[i].index)
       /\ (searchString = <<>> \/ getVisibleLinesCM6.content = <<>>) => matches = <<>>

\* The slice holds an occurrence that starts at the end offset of a visible
\* range, and the detector returned other matches.
C29_Witness ==
    /\ lastOp.op = "findMatches"
    /\ matches # <<>>
    /\ \E pos \in 0..Len(getVisibleLinesCM6.content) :
          /\ OccursAt(pos)
          /\ \E r \in 1..Len(visibleRanges) :
                visibleRanges[r].to = pos + getVisibleLinesCM6.index
          /\ ~InVisibleRange(pos + getVisibleLinesCM6.index)

\* The string occurs somewhere in the slice, compared as the literal finder
\* compares (without case unless the search is case sensitive).
OccursInSlice(str) ==
    LET text == getVisibleLinesCM6.content
    IN \E pos \in 0..(Len(text) - Len(str)) :
          \A i \in 1..Len(str) :
             IF settings.flashCaseSensitive
             THEN text[pos + i] = str[i]
             ELSE ToLowerCase(text[pos + i]) = ToLowerCase(str[i])

\* C30: the exclusion set holds exactly the candidate characters (distinct,
\* lower-cased, non-whitespace characters of the alphabet) c for which the
\* search string extended by c occurs in the host's slice.
C30_ExclusionSetIsContinuations ==
    LET slice     == getVisibleLinesCM6
        conflicts == collectSearchConflictChars(searchString, slice.content, slice.index)
    IN lastOp.op = "findMatches"
       => \A c \in LabelChars \cup DocChars \cup {"A"} :
             c \in conflicts
             <=> /\ \E i \in 1..Len(settings.letters) : ToLowerCase(settings.letters[i]) = c
                 /\ OccursInSlice(Append(searchString, c))

\* The detector ran with a search string that one alphabet letter continues
\* and another does not.
C30_Witness ==
    LET slice     == getVisibleLinesCM6
        conflicts == collectSearchConflictChars(searchString, slice.content, slice.index)
    IN /\ lastOp.op = "findMatches"
       /\ matches # <<>>
       /\ conflicts # {}
       /\ \E i \in 1..Len(settings.letters) : settings.letters[i] \notin conflicts


(***************************************************************************)
(* The merge of literal and phonetic matches.                              *)
(***************************************************************************)
\* The pairs (index, matchLength) of a list of matches.
KeysOf(list) == {<<list[i].index, list[i].matchLength>> : i \in 1..Len(list)}

\* merged holds every pair of the two lists and no other, each once, by
\* index ascending and, at one index, by matchLength ascending.
IsMergeOf(merged, literal, pyjj) ==
    /\ KeysOf(merged) = KeysOf(literal) \cup KeysOf(pyjj)
    /\ \A i, j \in 1..Len(merged) :
          i < j => \/ merged[i].index < merged[j].index
                   \/ /\ merged[i].index = merged[j].index
                      /\ merged[i].matchLength < merged[j].matchLength

\* C31: in phonetic mode the merged result of the literal and the phonetic
\* matches holds each (index, matchLength) pair at most once, holds every
\* pair of either list and no other, and is sorted by index and then by
\* matchLength; in literal mode the result is the literal matches alone.
C31_MergedMatches ==
    /\ lastOp.op = "mergeMatches" => IsMergeOf(matches, mergeIn.literal, mergeIn.pyjj)
    /\ lastOp.op = "getRawMatches" =>
          IF settings.flashInputMode = "zh-pyjj"
          THEN IsMergeOf(matches, findLiteralMatches(searchString, doc, 0),
                         findPyjjMatchesInContent(searchString, doc, 0))
          ELSE matches = findLiteralMatches(searchString, doc, 0)

\* In phonetic mode a phonetic match precedes a literal one in the result.
C31_Witness ==
    /\ lastOp.op = "getRawMatches"
    /\ settings.flashInputMode = "zh-pyjj"
    /\ findLiteralMatches(searchString, doc, 0) # <<>>
    /\ Len(matches) >= 2
    /\ matches[1] \notin Range(findLiteralMatches(searchString, doc, 0))

\* Two drawn lists that share a pair and hold two lengths at one index were
\* merged.
MergedSharedPair ==
    /\ lastOp.op = "mergeMatches"
    /\ KeysOf(mergeIn.literal) \cap KeysOf(mergeIn.pyjj) # {}
    /\ Len(matches) >= 2
    /\ matches[1].index = matches[2].index


(***************************************************************************)
(* Jump positions.                                                         *)
(***************************************************************************)
\* The policy a jump call was made under.
PolicyOf(call) ==
    IF call.useCapital THEN settings.flashJumpPositionCapital ELSE settings.flashJumpPosition

\* C32: for a chosen match with start i and length n the jump target is i
\* under match-start, i + n - 1 under match-end and i + n under
\* after-match-end; the policy is the capital one iff the use-capital flag
\* of the jump is true.
C32_MatchRelativeTargets ==
    \A k \in 1..Len(calls) :
        calls[k].cb = "onJump" =>
            /\ PolicyOf(calls[k]) = "match-start"
                  => calls[k].index = calls[k].match.index
            /\ PolicyOf(calls[k]) = "match-end"
                  => calls[k].index = calls[k].match.index + calls[k].match.matchLength - 1
            /\ PolicyOf(calls[k]) = "after-match-end"
                  => calls[k].index = calls[k].match.index + calls[k].match.matchLength

\* A two-character match was chosen with the capital flag where the capital
\* policy is match-start and the normal one is match-end.
C32_Witness ==
    \E k \in 1..Len(calls) :
        /\ calls[k].cb = "onJump"
        /\ calls[k].useCapital
        /\ settings.flashJumpPositionCapital = "match-start"
        /\ settings.flashJumpPosition = "match-end"
        /\ calls[k].match.matchLength = 2
        /\ calls[k].index = calls[k].match.index


(***************************************************************************)
(* Word boundaries.                                                        *)
(***************************************************************************)
\* The characters of the document at offsets from up to to - 1 are letters,
\* numbers or underscores.
WordCharsBetween(from, to) == \A i \in (from + 1)..to : IsWordChar(doc[i])

\* C33: the word-start target lies in [max(0, matchStart - 100), matchStart]
\* and the word-end target in [matchEnd, min(docLength, matchEnd + 100)];
\* the characters between the target and the match boundary are word
\* characters; the target is the boundary of the word or, for a word longer
\* than the window, the edge of the window.
C33_WordScansBounded ==
    \A k \in 1..Len(calls) :
        LET target     == calls[k].index
            matchStart == calls[k].match.index
            matchEnd   == calls[k].match.index + calls[k].match.matchLength
            first      == Max(0, matchStart - 100)
            last       == Min(Len(doc), matchEnd + 100)
        IN calls[k].cb = "onJump" =>
              /\ PolicyOf(calls[k]) = "word-start" =>
                    /\ first <= target /\ target <= matchStart
                    /\ WordCharsBetween(target, matchStart)
                    /\ target = first \/ ~IsWordChar(doc[target])
              /\ PolicyOf(calls[k]) = "word-end" =>
                    /\ matchEnd <= target /\ target <= last
                    /\ WordCharsBetween(matchEnd, target)
                    /\ target = last \/ ~IsWordChar(doc[target + 1])

\* A word of more than 100 characters before the match: the word-start
\* target is the edge of the window, inside the word.
C33_Witness ==
    \E k \in 1..Len(calls) :
        /\ calls[k].cb = "onJump"
        /\ PolicyOf(calls[k]) = "word-start"
        /\ calls[k].index = calls[k].match.index - 100
        /\ calls[k].index > 0
        /\ IsWordChar(doc[calls[k].index])

\* A word of more than 100 characters after the match: the word-end target
\* is the edge of the window, inside the word.
WordEndAtWindowEdge ==
    \E k \in 1..Len(calls) :
        /\ calls[k].cb = "onJump"
        /\ PolicyOf(calls[k]) = "word-end"
        /\ calls[k].index = calls[k].match.index + calls[k].match.matchLength + 100
        /\ calls[k].index < Len(doc)
        /\ IsWordChar(doc[calls[k].index + 1])


(***************************************************************************)
(* The delayed re-assertion of a jump.                                     *)
(***************************************************************************)
\* C34: a jump outside visual-selection mode schedules exactly one delayed
\* re-assertion (a jump that sets a selection schedules none); when it
\* fires it is gone, it dispatches once to put the cursor at the target of
\* its jump if the cursor is elsewhere and does nothing otherwise, and it
\* schedules nothing.
C34_SingleReassertion ==
    [][/\ lastOp'.op = "jumpToPosition" =>
             editor'.timers = IF editor'.lastJump.useSelection THEN editor.timers
                              ELSE Append(editor.timers, editor'.lastJump.index)
       /\ lastOp'.op = "timer" =>
             /\ editor'.timers = Tail(editor.timers)
             /\ IF editor.head # Head(editor.timers)
                THEN /\ editor'.dispatches = 1
                     /\ editor'.head = Head(editor.timers)
                     /\ editor'.anchor = Head(editor.timers)
                ELSE /\ editor'.dispatches = 0
                     /\ editor'.head = editor.head
                     /\ editor'.anchor = editor.anchor
             /\ UNCHANGED <<plugin, widget, ctlVars, calls, completeCount>>]_vars

\* The host moved the cursor after a jump and the timer of the jump has put
\* it back at the target.
C34_Witness ==
    /\ lastOp.op = "timer"
    /\ editor.moved
    /\ editor.dispatches = 1
    /\ editor.timers = <<>>
    /\ editor.head = editor.lastJump.index

\* C35: a jump was made while the timer of an earlier jump was pending, the
\* host did not move the cursor since, and every timer has fired: the cursor
\* is at the target of the latest jump.
C35_CursorRestsAtLatestTarget ==
    (/\ editor.lastJump.pending > 0
     /\ ~editor.moved
     /\ editor.timers = <<>>)
    => editor.head = editor.lastJump.index


(***************************************************************************)
(* Consistency of the prefix state.                                        *)
(***************************************************************************)
\* C36: in every reachable state the prefix shift flag is false when the
\* matched prefix is empty; when the matched prefix is not empty the
\* controller is active, there are live matches, and every live match has a
\* two-character label that starts with the matched prefix.
C36_PrefixStateConsistent ==
    /\ matchedPrefix = "" => ~prefixShiftHeld
    /\ matchedPrefix # "" =>
          /\ isActive
          /\ matches # <<>>
          /\ \A i \in 1..Len(matches) :
                /\ Len(matches[i].letter) = 2
                /\ matches[i].letter[1] = matchedPrefix

(***************************************************************************)
(* Backspace and the jump callback.                                        *)
(***************************************************************************)
\* C37: with an unchanging document and viewport a Backspace keystroke,
\* delivered by the listener or through the key entry point, never fires the
\* jump callback.
C37_BackspaceNeverJumps ==
    [][\A shiftKey \in BOOLEAN :
          (/\ lastOp'.op \in {"Backspace", "handleKeyForTest"}
           /\ Becomes(handleKeyDown(Ctl, "Backspace", shiftKey), lastOp'.op))
          => SelectSeq(calls', LAMBDA call : call.cb = "onJump") = <<>>]_vars


(***************************************************************************)
(* Range of the jump target.                                               *)
(***************************************************************************)
\* C38: under every jump-position policy and for every chosen match the
\* offset passed to the jump callback lies within [0, document length].
C38_TargetWithinDocument ==
    \A k \in 1..Len(calls) :
        calls[k].cb = "onJump" => (0 <= calls[k].index /\ calls[k].index <= Len(doc))


(***************************************************************************)
(* The jump ends the session.                                              *)
(***************************************************************************)
\* C39: the jump callback is fired by a keystroke on an active controller,
\* once; the completion callback fires in the same keystroke, after the
\* jump and not before it, and the controller is inactive when the handler
\* returns, so that one activation sees at most one jump.
C39_JumpThenComplete ==
    CallsOf("onJump") # <<>> =>
        /\ Len(CallsOf("onJump")) = 1
        /\ lastOp.wasActive
        /\ ~isActive
        /\ completeCount = 1
        /\ Len(CallsOf("onComplete")) = 1
        /\ \A i, j \in 1..Len(calls) :
              (calls[i].cb = "onJump" /\ calls[j].cb = "onComplete") => i < j

\* A label key chose a match: the jump, the decoration update of the
\* deactivation and the completion were called in this order.
C39_Witness ==
    /\ lastOp.op = "printable"
    /\ ~isActive
    /\ Len(calls) = 3
    /\ calls[1].cb = "onJump"
    /\ calls[1].searchString # <<>>
    /\ calls[2].cb = "onDecorationUpdate"
    /\ calls[3].cb = "onComplete"


(***************************************************************************)
(* The widget follows the controller.                                      *)
(***************************************************************************)
\* C40: after every keystroke, click and deactivation the matches held by
\* the widget are the live matches of the controller and the widget's
\* matched key is the controller's prefix; after a deactivation the widget
\* holds no matches.
C40_WidgetTracksController ==
    /\ widget.matches = matches
    /\ widget.matchedKey = matchedPrefix
    /\ ~isActive => widget.matches = <<>>

\* The controller entered prefix mode: the widget was given the matches and
\* filtered them by the prefix.
C40_Witness ==
    /\ lastOp.op = "printable"
    /\ matchedPrefix # ""
    /\ widget.matchedKey = matchedPrefix
    /\ Len(widget.matches) >= 2
    /\ widget.matches = matches

====
